---- MODULE Spec2Model ----
(***************************************************************************)
(* The quote-to-delivery workflow of the Comcat back end: the Inquiry,     *)
(* Quotation and Order stores and the route handlers that move them.       *)
(*                                                                         *)
(* Two quotation routers exist in the repository (unnamed/part_003 and     *)
(* unnamed/part_004); the server mounts exactly one module at              *)
(* /api/quotation (part_004:1284,1344), so `deployed` records which of the *)
(* two a running server uses.  Documents carry the fields the mounted      *)
(* router writes: part_004 writes inquiry/parts, part_003 writes           *)
(* inquiryId/items.  The Quotation schema of part_000 declares the fields  *)
(* of part_004; part_003 is modelled against a store that keeps what the   *)
(* handler writes, and its Quotation.create may also throw.  No Order      *)
(* schema is in the sources: an Order holds what `new Order({...})` and    *)
(* the handlers assign, and the store has no unique index on               *)
(* Order.quotation.                                                        *)
(*                                                                         *)
(* Time is a logical clock `now`; every `new Date()` reads it.  Prices are *)
(* integers.  Fields no handler guard reads and no property mentions       *)
(* (free-text notes, file lists, customer names, order numbers) are left   *)
(* out.                                                                    *)
(***************************************************************************)
EXTENDS Integers, Sequences, FiniteSets, TLC

\* ------------------------------------------------------------------ bounds
MaxInquiries == 1
MaxQuotations == 2
MaxOrders == 2
MaxTime == 1
MaxParts == 2
\* the random 3-digit suffix of a quotation number is drawn from 0..MaxSuffix
MaxSuffix == 0

\* ------------------------------------------------------- program constants
\* default validity: 30 days after creation
ValidityDays == 30
\* quotation number = date part * SuffixRange + random suffix
SuffixRange == 1000

\* null / undefined
NoRef == 0
NoDate == -1
NoAmount == -1
None == "none"

\* ------------------------------------------------------------------- users
Customers == {"c1", "c2"}
Users == Customers \cup {"admin", "backoffice"}
\* decoded.role of the token
Role(u) == IF u \in Customers THEN "customer" ELSE u

\* requireQuotationPermission: admin and backoffice always pass
HasQuotationPermission(u) == Role(u) \in {"admin", "backoffice"}

DefaultTerms == "standard"

VARIABLES
    deployed,       \* which quotation router the server mounts
    now,            \* the clock
    inquiries,      \* Inquiry collection: id -> document
    quotations,     \* Quotation collection: id -> document
    orders,         \* Order collection: id -> document
    nextInquiry,    \* next fresh Inquiry id
    nextQuotation,  \* next fresh Quotation id
    nextOrder,      \* next fresh Order id
    res,            \* the last HTTP response: status code and returned id
    inflight,       \* acceptance requests suspended at an await: slot -> request
    notified        \* the notifier calls of the last request, and whether they threw

vars == <<deployed, now, inquiries, quotations, orders,
          nextInquiry, nextQuotation, nextOrder, res, inflight, notified>>

stores == <<inquiries, quotations, orders, nextInquiry, nextQuotation, nextOrder>>

\* ---------------------------------------------------------------- helpers
Min(S) == CHOOSE x \in S : \A y \in S : x <= y

RECURSIVE SumTotalPrice(_)
\* parts.reduce((total, part) => total + part.totalPrice, 0)
SumTotalPrice(ps) ==
    IF ps = <<>> THEN 0 ELSE ps[1].totalPrice + SumTotalPrice(Tail(ps))

\* x || d
OrElse(x, d) == IF x = 0 \/ x = NoAmount THEN d ELSE x

\* no email, SMS, notification record or websocket message went out
NoCalls == [calls |-> {}, threw |-> FALSE]

\* one notifier call: the channel, the status it announces, the entity and the
\* status the store held for that entity when the call was made
Call(channel, event, id, stored) ==
    [channel |-> channel, event |-> event, id |-> id, stored |-> stored]

\* the answer of a request that made no notifier call
Respond(code, ref) ==
    /\ res' = [code |-> code, ref |-> ref]
    /\ notified' = NoCalls

\* the answer of a request that made the notifier calls `calls`, each inside
\* its own try/catch: the notifiers work, or they throw and the catch logs it
RespondNotified(code, ref, calls) ==
    /\ res' = [code |-> code, ref |-> ref]
    /\ \E threw \in BOOLEAN : notified' = [calls |-> calls, threw |-> threw]

\* Model.findOne(filter): of the ids that match, the first inserted, or null
FindOne(matching) == IF matching = {} THEN NoRef ELSE Min(matching)

Init ==
    /\ deployed \in {"part_003", "part_004"}
    /\ now = 0
    /\ inquiries = <<>>
    /\ quotations = <<>>
    /\ orders = <<>>
    /\ nextInquiry = 1
    /\ nextQuotation = 1
    /\ nextOrder = 1
    /\ res = [code |-> 0, ref |-> NoRef]
    /\ inflight = <<>>
    /\ notified = NoCalls

\* the clock advances
Tick ==
    /\ now < MaxTime
    /\ now' = now + 1
    /\ UNCHANGED <<deployed, inflight, stores, res, notified>>

\* ---------------------------------------------------------------- inquiry
\* POST /api/inquiry
CreateInquiry(actor, address) ==
    /\ nextInquiry <= MaxInquiries
    /\ inquiries' = inquiries @@
          (nextInquiry :> [customer |-> actor, status |-> "pending", quotation |-> NoRef,
                           deliveryAddress |-> address])
    /\ nextInquiry' = nextInquiry + 1
    /\ Respond(201, nextInquiry)
    /\ UNCHANGED <<deployed, inflight, now, quotations, orders, nextQuotation, nextOrder>>

\* DELETE /api/inquiry/:id
DeleteInquiry(actor, id) ==
    /\ IF id \in DOMAIN inquiries
          /\ inquiries[id].customer = actor
          /\ inquiries[id].status = "pending"
       THEN /\ inquiries' = [k \in DOMAIN inquiries \ {id} |-> inquiries[k]]
            /\ Respond(200, id)
       ELSE /\ Respond(404, NoRef)
            /\ UNCHANGED inquiries
    /\ UNCHANGED <<deployed, inflight, now, quotations, orders, nextInquiry, nextQuotation, nextOrder>>

\* -------------------------------------------------- quotation (part_004)
\* parts.map(part => ({...part, totalPrice: part.unitPrice * part.quantity}))
ProcessParts(parts) ==
    [k \in DOMAIN parts |->
        [unitPrice |-> parts[k].unitPrice,
         quantity |-> parts[k].quantity,
         totalPrice |-> parts[k].unitPrice * parts[k].quantity]]

\* validUntil ? new Date(validUntil) : new Date(Date.now() + 30 days)
ValidUntilOrDefault(validUntil) ==
    IF validUntil # NoDate THEN validUntil ELSE now + ValidityDays

\* pre('validate'): QT + YYMMDD + random 3 digits
GenerateQuotationNumber(rnd) == (now + 1) * SuffixRange + rnd

\* the unique index on quotationNumber
NumberTaken(n) == \E k \in DOMAIN quotations : quotations[k].quotationNumber = n

\* the lookup written with the other router's field name: no document of this
\* router carries it, so nothing is ever found
FindQuotationByInquiryId(inquiryId) ==
    FindOne({k \in DOMAIN quotations : quotations[k].inquiryId = inquiryId})

\* Quotation.findOne({ inquiry: inquiryId })
FindQuotationByInquiry(inquiryId) ==
    FindOne({k \in DOMAIN quotations : quotations[k].inquiry = inquiryId})

\* POST /api/quotation
CreateQuotation4(actor, inquiryId, parts, totalAmount, terms, validUntil, isUploadQuotation, rnd, fail) ==
    /\ deployed = "part_004"
    /\ UNCHANGED <<deployed, inflight, now, orders, nextInquiry, nextOrder>>
    /\ IF ~HasQuotationPermission(actor)
       THEN Respond(403, NoRef) /\ UNCHANGED <<inquiries, quotations, nextQuotation>>
       ELSE IF inquiryId \notin DOMAIN inquiries
       THEN Respond(404, NoRef) /\ UNCHANGED <<inquiries, quotations, nextQuotation>>
       ELSE
       LET processedParts == IF isUploadQuotation THEN <<>> ELSE ProcessParts(parts)
           finalTotalAmount == IF isUploadQuotation THEN totalAmount
                               ELSE SumTotalPrice(processedParts)
           existingQuotation == FindQuotationByInquiry(inquiryId)
           quotationNumber == GenerateQuotationNumber(rnd)
       IN
       IF existingQuotation # NoRef
       THEN IF quotations[existingQuotation].status = "draft"
            THEN IF fail = 1
                 THEN Respond(500, NoRef)
                      /\ UNCHANGED <<inquiries, quotations, nextQuotation>>
                 ELSE /\ quotations' = [quotations EXCEPT ![existingQuotation] =
                            [@ EXCEPT !.parts = processedParts,
                                      !.totalAmount = finalTotalAmount,
                                      !.terms = IF terms # None THEN terms ELSE DefaultTerms,
                                      !.validUntil = ValidUntilOrDefault(validUntil),
                                      !.isUploadQuotation = isUploadQuotation]]
                      /\ Respond(200, existingQuotation)
                      /\ UNCHANGED <<inquiries, nextQuotation>>
            ELSE Respond(400, existingQuotation)
                 /\ UNCHANGED <<inquiries, quotations, nextQuotation>>
       ELSE /\ nextQuotation <= MaxQuotations
            /\ IF fail = 1 \/ NumberTaken(quotationNumber)
               THEN Respond(500, NoRef)
                    /\ UNCHANGED <<inquiries, quotations, nextQuotation>>
               ELSE /\ quotations' = quotations @@ (nextQuotation :>
                          [inquiry |-> inquiryId,
                           inquiryId |-> NoRef,
                           quotationNumber |-> quotationNumber,
                           status |-> "draft",
                           parts |-> processedParts,
                           items |-> <<>>,
                           totalAmount |-> finalTotalAmount,
                           currency |-> "USD",
                           validUntil |-> ValidUntilOrDefault(validUntil),
                           terms |-> IF terms # None THEN terms ELSE DefaultTerms,
                           isUploadQuotation |-> isUploadQuotation,
                           sentAt |-> NoDate,
                           acceptedAt |-> NoDate,
                           rejectedAt |-> NoDate,
                           orderCreatedAt |-> NoDate])
                    /\ nextQuotation' = nextQuotation + 1
                    /\ IF fail = 2
                       THEN Respond(500, NoRef) /\ UNCHANGED inquiries
                       ELSE /\ inquiries' = [inquiries EXCEPT ![inquiryId] =
                                  [@ EXCEPT !.status = "quoted",
                                            !.quotation = nextQuotation]]
                            /\ Respond(201, nextQuotation)

\* PUT /api/quotation/:id
UpdateQuotation4(actor, id, parts, terms, validUntil, fail) ==
    /\ deployed = "part_004"
    /\ UNCHANGED <<deployed, inflight, now, inquiries, orders,
                   nextInquiry, nextQuotation, nextOrder>>
    /\ IF ~HasQuotationPermission(actor)
       THEN Respond(403, NoRef) /\ UNCHANGED quotations
       ELSE IF id \notin DOMAIN quotations
       THEN Respond(404, NoRef) /\ UNCHANGED quotations
       ELSE IF fail = 1
       THEN Respond(500, NoRef) /\ UNCHANGED quotations
       ELSE LET processedParts == ProcessParts(parts)
                totalAmount == SumTotalPrice(processedParts)
            IN  /\ quotations' = [quotations EXCEPT ![id] =
                      [@ EXCEPT !.parts = processedParts,
                                !.totalAmount = totalAmount,
                                !.terms = IF terms # None THEN terms ELSE @,
                                !.validUntil = IF validUntil # NoDate THEN validUntil ELSE @]]
                /\ Respond(200, id)

\* POST /:id/send without the try/catch around sendQuotationEmail: the error
\* the mailer rethrows reaches the route's catch, which answers 500 before the
\* quotation is saved
SendQuotationEmailUncaught(actor, id, fail) ==
    /\ deployed = "part_004"
    /\ UNCHANGED <<deployed, inflight, now, inquiries, orders,
                   nextInquiry, nextQuotation, nextOrder>>
    /\ IF ~HasQuotationPermission(actor)
       THEN Respond(403, NoRef) /\ UNCHANGED quotations
       ELSE IF id \notin DOMAIN quotations
       THEN Respond(404, NoRef) /\ UNCHANGED quotations
       ELSE IF quotations[id].status # "draft"
       THEN Respond(400, NoRef) /\ UNCHANGED quotations
       ELSE IF quotations[id].inquiry \notin DOMAIN inquiries
       THEN Respond(400, NoRef) /\ UNCHANGED quotations
       ELSE
       LET calls == {Call("email", "sent", id, quotations[id].status),
                     Call("record", "sent", id, quotations[id].status)}
       IN
       \E threw \in BOOLEAN :
          /\ notified' = [calls |-> calls, threw |-> threw]
          /\ IF threw \/ fail = 1
             THEN res' = [code |-> 500, ref |-> NoRef] /\ UNCHANGED quotations
             ELSE /\ quotations' = [quotations EXCEPT ![id] =
                        [@ EXCEPT !.status = "sent", !.sentAt = now]]
                  /\ res' = [code |-> 200, ref |-> id]

\* POST /api/quotation/:id/send
SendQuotation4(actor, id, fail) ==
    /\ deployed = "part_004"
    /\ UNCHANGED <<deployed, inflight, now, inquiries, orders,
                   nextInquiry, nextQuotation, nextOrder>>
    /\ IF ~HasQuotationPermission(actor)
       THEN Respond(403, NoRef) /\ UNCHANGED quotations
       ELSE IF id \notin DOMAIN quotations
       THEN Respond(404, NoRef) /\ UNCHANGED quotations
       ELSE IF quotations[id].status # "draft"
       THEN Respond(400, NoRef) /\ UNCHANGED quotations
       ELSE IF quotations[id].inquiry \notin DOMAIN inquiries
       THEN Respond(400, NoRef) /\ UNCHANGED quotations
       ELSE
       \* sendQuotationEmail and the 'Quotation Ready' record, then the save
       LET calls == {Call("email", "sent", id, quotations[id].status),
                     Call("record", "sent", id, quotations[id].status)}
       IN
       IF fail = 1
       THEN RespondNotified(500, NoRef, calls) /\ UNCHANGED quotations
       ELSE /\ quotations' = [quotations EXCEPT ![id] =
                  [@ EXCEPT !.status = "sent", !.sentAt = now]]
            /\ RespondNotified(200, id, calls)

\* DELETE /api/quotation/:id
DeleteQuotation4(actor, id, fail) ==
    /\ deployed = "part_004"
    /\ UNCHANGED <<deployed, inflight, now, inquiries, orders,
                   nextInquiry, nextQuotation, nextOrder>>
    /\ IF ~HasQuotationPermission(actor)
       THEN Respond(403, NoRef) /\ UNCHANGED quotations
       ELSE IF id \notin DOMAIN quotations
       THEN Respond(404, NoRef) /\ UNCHANGED quotations
       ELSE IF quotations[id].status # "draft"
       THEN Respond(400, NoRef) /\ UNCHANGED quotations
       ELSE IF fail = 1
       THEN Respond(500, NoRef) /\ UNCHANGED quotations
       ELSE /\ quotations' = [k \in DOMAIN quotations \ {id} |-> quotations[k]]
            /\ Respond(200, id)

\* Order.findOne({ quotation: quotationId })
FindOrderByQuotation(quotationId) ==
    FindOne({k \in DOMAIN orders : orders[k].quotation = quotationId})

\* quotation.inquiry.deliveryAddress.<field> || ''
AddressField(v) == IF v = None THEN "" ELSE v

EmptyAddress ==
    [street |-> "", city |-> "", state |-> "", country |-> "", zipCode |-> ""]

\* "Ensure deliveryAddress is always a valid object": `selected` tells whether
\* the populate call selected the inquiry's deliveryAddress, `populated` is it
DeliveryAddressOf(selected, populated) ==
    IF ~selected THEN EmptyAddress
    ELSE [street |-> AddressField(populated.street),
          city |-> AddressField(populated.city),
          state |-> AddressField(populated.state),
          country |-> AddressField(populated.country),
          zipCode |-> AddressField(populated.zipCode)]

\* new Order({...}) with the total taken from the unit prices alone, the
\* quantities forgotten; every other field as the handlers set it
NewOrderFromUnitPrices(quotationId, quotation, userId, deliveryAddress) ==
    [quotation |-> quotationId,
     customer |-> userId,
     inquiry |-> quotation.inquiry,
     parts |-> quotation.parts,
     totalAmount |-> SumTotalPrice([k \in DOMAIN quotation.parts |->
                        [totalPrice |-> quotation.parts[k].unitPrice]]),
     currency |-> quotation.currency,
     status |-> "pending",
     payment |-> [method |-> "pending", status |-> "pending",
                  transactionId |-> NoRef, amount |-> NoAmount,
                  paidAt |-> NoDate, gateway |-> None],
     confirmedAt |-> NoDate,
     production |-> [startDate |-> NoDate, estimatedCompletion |-> NoDate,
                     actualCompletion |-> NoDate],
     dispatch |-> [courier |-> None, trackingNumber |-> None, dispatchedAt |-> NoDate,
                   estimatedDelivery |-> NoDate, actualDelivery |-> NoDate],
     notes |-> NoAmount,
     deliveryAddress |-> deliveryAddress]

\* new Order({...}) of the two acceptance handlers; `quotation` is the
\* document the handler loaded.  notes holds the amount a refund note records
NewOrder(quotationId, quotation, userId, deliveryAddress) ==
    [quotation |-> quotationId,
     customer |-> userId,
     inquiry |-> quotation.inquiry,
     parts |-> quotation.parts,
     totalAmount |-> quotation.totalAmount,
     currency |-> quotation.currency,
     status |-> "pending",
     payment |-> [method |-> "pending", status |-> "pending",
                  transactionId |-> NoRef, amount |-> NoAmount,
                  paidAt |-> NoDate, gateway |-> None],
     confirmedAt |-> NoDate,
     production |-> [startDate |-> NoDate, estimatedCompletion |-> NoDate,
                     actualCompletion |-> NoDate],
     dispatch |-> [courier |-> None, trackingNumber |-> None, dispatchedAt |-> NoDate,
                   estimatedDelivery |-> NoDate, actualDelivery |-> NoDate],
     notes |-> NoAmount,
     deliveryAddress |-> deliveryAddress]

\* POST /api/quotation/:id/response
\* fail: 1 quotation.save, 2 order.save, 3 Inquiry.findByIdAndUpdate
RespondQuotation4(actor, id, response, fail) ==
    /\ deployed = "part_004"
    /\ UNCHANGED <<deployed, inflight, now, nextInquiry, nextQuotation>>
    /\ IF id \notin DOMAIN quotations
       THEN Respond(404, NoRef) /\ UNCHANGED <<inquiries, quotations, orders, nextOrder>>
       ELSE IF quotations[id].inquiry \notin DOMAIN inquiries
       THEN Respond(500, NoRef) /\ UNCHANGED <<inquiries, quotations, orders, nextOrder>>
       ELSE IF Role(actor) \notin {"customer", "admin"}
       THEN Respond(403, NoRef) /\ UNCHANGED <<inquiries, quotations, orders, nextOrder>>
       ELSE IF Role(actor) = "customer"
               /\ inquiries[quotations[id].inquiry].customer # actor
       THEN Respond(403, NoRef) /\ UNCHANGED <<inquiries, quotations, orders, nextOrder>>
       ELSE IF quotations[id].status # "sent"
       THEN Respond(400, NoRef) /\ UNCHANGED <<inquiries, quotations, orders, nextOrder>>
       ELSE IF fail = 1
       THEN Respond(500, NoRef) /\ UNCHANGED <<inquiries, quotations, orders, nextOrder>>
       ELSE
       /\ quotations' = [quotations EXCEPT ![id].status = response]
       /\ IF response = "accepted"
          THEN LET existingOrder == FindOrderByQuotation(id)
               IN  IF existingOrder # NoRef
                   THEN RespondNotified(200, existingOrder, {Call("record", response, id, response)})
                        /\ UNCHANGED <<inquiries, orders, nextOrder>>
                   ELSE /\ nextOrder <= MaxOrders
                        /\ IF fail = 2
                           THEN RespondNotified(500, NoRef, {Call("record", response, id, response)})
                                /\ UNCHANGED <<inquiries, orders, nextOrder>>
                           ELSE /\ orders' = orders @@ (nextOrder :>
                                      NewOrder(id, quotations[id], actor, DeliveryAddressOf(FALSE,
                                          inquiries[quotations[id].inquiry].deliveryAddress)))
                                /\ nextOrder' = nextOrder + 1
                                /\ IF fail = 3
                                   THEN RespondNotified(500, NoRef, {Call("record", response, id, response)}) /\ UNCHANGED inquiries
                                   ELSE /\ inquiries' =
                                             [inquiries EXCEPT ![quotations[id].inquiry].status = "quoted"]
                                        /\ RespondNotified(200, nextOrder, {Call("record", response, id, response)})
          ELSE /\ UNCHANGED <<orders, nextOrder>>
               /\ IF fail = 3
                  THEN RespondNotified(500, NoRef, {Call("record", response, id, response)}) /\ UNCHANGED inquiries
                  ELSE /\ inquiries' =
                            [inquiries EXCEPT ![quotations[id].inquiry].status = "rejected"]
                       /\ RespondNotified(200, NoRef, {Call("record", response, id, response)})

\* /:id/accept without its status guard and without the Order lookup: every
\* call on an existing quotation creates an Order
AcceptQuotationUnguarded(actor, id, fail) ==
    /\ deployed = "part_004"
    /\ UNCHANGED <<deployed, inflight, now, inquiries, nextInquiry, nextQuotation>>
    /\ IF id \notin DOMAIN quotations \/ fail # 0
       THEN Respond(404, NoRef) /\ UNCHANGED <<quotations, orders, nextOrder>>
       ELSE /\ nextOrder <= MaxOrders
            /\ quotations' = [quotations EXCEPT ![id] =
                   [@ EXCEPT !.status = "accepted", !.acceptedAt = now]]
            /\ orders' = orders @@ (nextOrder :>
                   NewOrder(id, quotations[id], actor, EmptyAddress))
            /\ nextOrder' = nextOrder + 1
            /\ Respond(200, id)

\* POST /api/quotation/:id/accept
\* fail: 1 quotation.save, 2 order.save
AcceptQuotation4(actor, id, fail) ==
    /\ deployed = "part_004"
    /\ UNCHANGED <<deployed, inflight, now, inquiries, nextInquiry, nextQuotation>>
    /\ IF id \notin DOMAIN quotations
       THEN Respond(404, NoRef) /\ UNCHANGED <<quotations, orders, nextOrder>>
       ELSE IF quotations[id].status # "sent"
       THEN Respond(400, NoRef) /\ UNCHANGED <<quotations, orders, nextOrder>>
       ELSE IF now > quotations[id].validUntil
       THEN Respond(400, NoRef) /\ UNCHANGED <<quotations, orders, nextOrder>>
       ELSE IF fail = 1
       THEN Respond(500, NoRef) /\ UNCHANGED <<quotations, orders, nextOrder>>
       ELSE
       /\ quotations' = [quotations EXCEPT ![id] =
              [@ EXCEPT !.status = "accepted", !.acceptedAt = now]]
       /\ LET existingOrder == FindOrderByQuotation(id)
              inquiry == quotations[id].inquiry
          IN  IF existingOrder # NoRef
              THEN Respond(200, id) /\ UNCHANGED <<orders, nextOrder>>
              ELSE IF inquiry \notin DOMAIN inquiries
              \* quotation.inquiry is null: quotation.inquiry._id throws
              THEN Respond(500, NoRef) /\ UNCHANGED <<orders, nextOrder>>
              ELSE /\ nextOrder <= MaxOrders
                   /\ IF fail = 2
                      THEN Respond(500, NoRef) /\ UNCHANGED <<orders, nextOrder>>
                      ELSE /\ orders' = orders @@ (nextOrder :>
                                 NewOrder(id, quotations[id], actor,
                                     DeliveryAddressOf(TRUE, inquiries[inquiry].deliveryAddress)))
                           /\ nextOrder' = nextOrder + 1
                           /\ Respond(200, id)

\* POST /api/quotation/:id/reject
RejectQuotation4(actor, id, fail) ==
    /\ deployed = "part_004"
    /\ UNCHANGED <<deployed, inflight, now, inquiries, orders,
                   nextInquiry, nextQuotation, nextOrder>>
    /\ IF id \notin DOMAIN quotations
       THEN Respond(404, NoRef) /\ UNCHANGED quotations
       ELSE IF quotations[id].status # "sent"
       THEN Respond(400, NoRef) /\ UNCHANGED quotations
       ELSE IF fail = 1
       THEN Respond(500, NoRef) /\ UNCHANGED quotations
       ELSE /\ quotations' = [quotations EXCEPT ![id] =
                  [@ EXCEPT !.status = "rejected", !.rejectedAt = now]]
            /\ Respond(200, NoRef)

\* -------------------------------------------------- quotation (part_003)
\* parts.map(part => ({ quantity: part.quantity || 1, unitPrice: part.unitPrice || 0,
\*                      totalPrice: part.totalPrice || 0, ... }))
MapItems(parts) ==
    [k \in DOMAIN parts |->
        [unitPrice |-> OrElse(parts[k].unitPrice, 0),
         quantity |-> OrElse(parts[k].quantity, 1),
         totalPrice |-> OrElse(parts[k].totalPrice, 0)]]

\* POST /api/quotation/create
\* fail: 1 Quotation.create, 2 Inquiry.findByIdAndUpdate (caught and ignored)
CreateQuotation3(actor, inquiryId, parts, totalAmount, fail) ==
    /\ deployed = "part_003"
    /\ UNCHANGED <<deployed, inflight, now, orders, nextInquiry, nextOrder>>
    /\ IF inquiryId \notin DOMAIN inquiries
       THEN Respond(404, NoRef) /\ UNCHANGED <<inquiries, quotations, nextQuotation>>
       ELSE
       LET existingQuotation == FindOne({k \in DOMAIN quotations : quotations[k].inquiryId = inquiryId})
       IN
       IF existingQuotation # NoRef
       THEN Respond(400, existingQuotation)
            /\ UNCHANGED <<inquiries, quotations, nextQuotation>>
       ELSE /\ nextQuotation <= MaxQuotations
            /\ IF fail = 1
               THEN Respond(500, NoRef)
                    /\ UNCHANGED <<inquiries, quotations, nextQuotation>>
               ELSE /\ quotations' = quotations @@ (nextQuotation :>
                          [inquiry |-> NoRef,
                           inquiryId |-> inquiryId,
                           quotationNumber |-> NoRef,
                           status |-> "draft",
                           parts |-> <<>>,
                           items |-> MapItems(parts),
                           totalAmount |-> totalAmount,
                           currency |-> None,
                           validUntil |-> NoDate,
                           terms |-> None,
                           isUploadQuotation |-> FALSE,
                           sentAt |-> NoDate,
                           acceptedAt |-> NoDate,
                           rejectedAt |-> NoDate,
                           orderCreatedAt |-> NoDate])
                    /\ nextQuotation' = nextQuotation + 1
                    /\ inquiries' = IF fail = 2 THEN inquiries
                                    ELSE [inquiries EXCEPT ![inquiryId] =
                                            [@ EXCEPT !.status = "quoted",
                                                      !.quotation = nextQuotation]]
                    \* sendQuotationEmail (the 'Quotation Ready' mail) and the
                    \* 'Quotation Created' record, for the draft just stored
                    /\ RespondNotified(200, nextQuotation,
                          {Call("email", "sent", nextQuotation, "draft"),
                           Call("record", "draft", nextQuotation, "draft")})

\* POST /api/quotation/upload
\* customerInfo must pass isObject() and is then given to JSON.parse, and
\* createdBy reads req.user.id although authenticateToken sets only
\* req.userId: building quotationData throws before Quotation.create
UploadQuotation3(actor, hasFile) ==
    /\ deployed = "part_003"
    /\ IF ~hasFile THEN Respond(400, NoRef) ELSE Respond(500, NoRef)
    /\ UNCHANGED <<deployed, inflight, now, stores>>

\* POST /api/quotation/:id/send
SendQuotation3(actor, id, fail) ==
    /\ deployed = "part_003"
    /\ UNCHANGED <<deployed, inflight, now, inquiries, orders,
                   nextInquiry, nextQuotation, nextOrder>>
    /\ IF id \notin DOMAIN quotations
       THEN Respond(404, NoRef) /\ UNCHANGED quotations
       ELSE IF fail = 1
       THEN Respond(500, NoRef) /\ UNCHANGED quotations
       ELSE /\ quotations' = [quotations EXCEPT ![id] =
                  [@ EXCEPT !.status = "sent", !.sentAt = now]]
            \* after the save: the quotation email and the SMS
            /\ RespondNotified(200, id, {Call("email", "sent", id, "sent"),
                                         Call("sms", "sent", id, "sent")})

\* POST /api/quotation/:id/response
\* fail: 1 quotation.save, 2 inquiry.save
RespondQuotation3(actor, id, response, fail) ==
    /\ deployed = "part_003"
    /\ UNCHANGED <<deployed, inflight, now, orders, nextInquiry, nextQuotation, nextOrder>>
    /\ IF id \notin DOMAIN quotations
       THEN Respond(404, NoRef) /\ UNCHANGED <<inquiries, quotations>>
       ELSE IF \/ quotations[id].inquiryId \notin DOMAIN inquiries
               \/ inquiries[quotations[id].inquiryId].customer # actor
       THEN Respond(403, NoRef) /\ UNCHANGED <<inquiries, quotations>>
       ELSE IF response \notin {"accepted", "rejected"}
       THEN Respond(400, NoRef) /\ UNCHANGED <<inquiries, quotations>>
       ELSE IF fail = 1
       THEN Respond(500, NoRef) /\ UNCHANGED <<inquiries, quotations>>
       ELSE /\ quotations' = [quotations EXCEPT ![id] =
                  IF response = "accepted"
                  THEN [@ EXCEPT !.status = "accepted", !.acceptedAt = now]
                  ELSE [@ EXCEPT !.status = "rejected", !.rejectedAt = now]]
            /\ IF fail = 2
               THEN Respond(500, NoRef) /\ UNCHANGED inquiries
               ELSE /\ inquiries' =
                         [inquiries EXCEPT ![quotations[id].inquiryId].status = response]
                    /\ Respond(200, id)

\* ------------------------------------------------------ payment (payment.js)
\* order.customer.toString() of an order loaded with .populate('customer', ...):
\* the populated customer is a User document, whose toString() renders the
\* document and not its id
PopulatedCustomerToString(order) == "{ _id: " \o order.customer \o " }"

\* `txn_${Date.now()}_${random}`; caller-supplied transaction ids are 1, 2
GenerateTransactionId(rnd) == 10 * (now + 1) + rnd

\* POST /api/payment/initialize
Initialize(actor, orderId, paymentMethod, amount, fail) ==
    /\ UNCHANGED <<deployed, inflight, now, inquiries, quotations,
                   nextInquiry, nextQuotation, nextOrder>>
    /\ IF orderId \notin DOMAIN orders
       THEN Respond(404, NoRef) /\ UNCHANGED orders
       ELSE IF PopulatedCustomerToString(orders[orderId]) # actor
       THEN Respond(403, NoRef) /\ UNCHANGED orders
       ELSE IF orders[orderId].status # "pending"
       THEN Respond(400, NoRef) /\ UNCHANGED orders
       \* Math.abs(amount - order.totalAmount) > 0.01, amounts being whole units
       ELSE IF amount - orders[orderId].totalAmount > 0
               \/ orders[orderId].totalAmount - amount > 0
       THEN Respond(400, NoRef) /\ UNCHANGED orders
       ELSE IF fail = 1
       THEN Respond(500, NoRef) /\ UNCHANGED orders
       ELSE /\ orders' = [orders EXCEPT ![orderId].payment =
                  [@ EXCEPT !.method = paymentMethod, !.status = "processing",
                            !.amount = amount, !.gateway = paymentMethod]]
            /\ Respond(200, orderId)

\* POST /process with the ownership check comparing the customer's id
ProcessComparingIds(actor, orderId, paymentSuccess, rnd, fail) ==
    /\ UNCHANGED <<deployed, inflight, now, inquiries, quotations,
                   nextInquiry, nextQuotation, nextOrder>>
    /\ IF orderId \notin DOMAIN orders
       THEN Respond(404, NoRef) /\ UNCHANGED orders
       ELSE IF orders[orderId].customer # actor
       THEN Respond(403, NoRef) /\ UNCHANGED orders
       ELSE IF fail = 1
       THEN Respond(500, NoRef) /\ UNCHANGED orders
       ELSE IF paymentSuccess
       THEN /\ orders' = [orders EXCEPT ![orderId] =
                  [@ EXCEPT !.payment.status = "completed",
                            !.payment.paidAt = now,
                            !.payment.transactionId = GenerateTransactionId(rnd),
                            !.status = "confirmed",
                            !.confirmedAt = now]]
            /\ RespondNotified(200, orderId,
                  {Call("email", "confirmed", orderId, "confirmed")})
       ELSE /\ orders' = [orders EXCEPT ![orderId].payment.status = "failed"]
            /\ Respond(400, NoRef)

\* POST /api/payment/process
Process(actor, orderId, paymentSuccess, rnd, fail) ==
    /\ UNCHANGED <<deployed, inflight, now, inquiries, quotations,
                   nextInquiry, nextQuotation, nextOrder>>
    /\ IF orderId \notin DOMAIN orders
       THEN Respond(404, NoRef) /\ UNCHANGED orders
       ELSE IF PopulatedCustomerToString(orders[orderId]) # actor
       THEN Respond(403, NoRef) /\ UNCHANGED orders
       ELSE IF fail = 1
       THEN Respond(500, NoRef) /\ UNCHANGED orders
       ELSE IF paymentSuccess
       THEN /\ orders' = [orders EXCEPT ![orderId] =
                  [@ EXCEPT !.payment.status = "completed",
                            !.payment.paidAt = now,
                            !.payment.transactionId = GenerateTransactionId(rnd),
                            !.status = "confirmed",
                            !.confirmedAt = now]]
            /\ RespondNotified(200, orderId,
                  {Call("email", "confirmed", orderId, "confirmed")})
       ELSE /\ orders' = [orders EXCEPT ![orderId].payment.status = "failed"]
            /\ Respond(400, NoRef)

\* /:orderId/refund without the guard on payment.status
RefundUnguarded(actor, orderId, amount, fail) ==
    /\ UNCHANGED <<deployed, inflight, now, inquiries, quotations,
                   nextInquiry, nextQuotation, nextOrder>>
    /\ IF Role(actor) \notin {"admin", "backoffice"}
       THEN Respond(403, NoRef) /\ UNCHANGED orders
       ELSE IF orderId \notin DOMAIN orders
       THEN Respond(404, NoRef) /\ UNCHANGED orders
       ELSE IF fail = 1
       THEN Respond(500, NoRef) /\ UNCHANGED orders
       ELSE /\ orders' = [orders EXCEPT ![orderId] =
                  [@ EXCEPT !.payment.status = "refunded",
                            !.notes = OrElse(amount, orders[orderId].payment.amount)]]
            /\ Respond(200, orderId)

\* POST /api/payment/:orderId/refund
\* amount is optional (NoAmount when left out); the refund amount goes into
\* the Order's notes
Refund(actor, orderId, amount, fail) ==
    /\ UNCHANGED <<deployed, inflight, now, inquiries, quotations,
                   nextInquiry, nextQuotation, nextOrder>>
    /\ IF Role(actor) \notin {"admin", "backoffice"}
       THEN Respond(403, NoRef) /\ UNCHANGED orders
       ELSE IF orderId \notin DOMAIN orders
       THEN Respond(404, NoRef) /\ UNCHANGED orders
       ELSE IF orders[orderId].payment.status # "completed"
       THEN Respond(400, NoRef) /\ UNCHANGED orders
       ELSE IF fail = 1
       THEN Respond(500, NoRef) /\ UNCHANGED orders
       ELSE LET refundAmount == OrElse(amount, orders[orderId].payment.amount)
            IN  /\ orders' = [orders EXCEPT ![orderId] =
                      [@ EXCEPT !.payment.status = "refunded",
                                !.notes = refundAmount]]
                /\ Respond(200, orderId)

\* POST /api/payment/update-order
\* fail: 1 existingOrder.save, 2 quotation.save
UpdateOrder(actor, quotationId, paymentMethod, transactionId, paymentAmount, fail) ==
    /\ UNCHANGED <<deployed, inflight, now, inquiries, nextInquiry, nextQuotation, nextOrder>>
    /\ IF paymentAmount = 0
       THEN Respond(400, NoRef) /\ UNCHANGED <<quotations, orders>>
       ELSE IF quotationId \notin DOMAIN quotations
       THEN Respond(404, NoRef) /\ UNCHANGED <<quotations, orders>>
       ELSE IF quotations[quotationId].status # "accepted"
       THEN Respond(400, NoRef) /\ UNCHANGED <<quotations, orders>>
       ELSE IF paymentAmount # quotations[quotationId].totalAmount
       THEN Respond(400, NoRef) /\ UNCHANGED <<quotations, orders>>
       ELSE
       LET existingOrder == FindOrderByQuotation(quotationId)
       IN
       IF existingOrder = NoRef
       THEN Respond(404, NoRef) /\ UNCHANGED <<quotations, orders>>
       ELSE IF fail = 1
       THEN Respond(500, NoRef) /\ UNCHANGED <<quotations, orders>>
       ELSE /\ orders' = [orders EXCEPT ![existingOrder] =
                  [@ EXCEPT !.status = "confirmed",
                            !.payment = [method |-> paymentMethod,
                                         status |-> "completed",
                                         transactionId |-> transactionId,
                                         amount |-> paymentAmount,
                                         paidAt |-> now,
                                         gateway |-> "manual"],
                            !.confirmedAt = now]]
            /\ IF fail = 2
               THEN Respond(500, NoRef) /\ UNCHANGED quotations
               ELSE /\ quotations' = [quotations EXCEPT ![quotationId] =
                          [@ EXCEPT !.status = "order_created", !.orderCreatedAt = now]]
                    /\ RespondNotified(200, existingOrder,
                          {Call(channel, "confirmed", existingOrder, "confirmed") :
                              channel \in {"email", "record", "websocket"}})

\* /verify that also overwrites the Order's total with the amount the gateway
\* reports
VerifyOverwritingTotal(actor, quotationId, verificationSuccess, detailsSuccess, amount, razorpayPaymentId, fail) ==
    /\ UNCHANGED <<deployed, inflight, now, inquiries, quotations,
                   nextInquiry, nextQuotation, nextOrder>>
    /\ IF ~verificationSuccess \/ ~detailsSuccess
       THEN Respond(400, NoRef) /\ UNCHANGED orders
       ELSE
       LET order == FindOrderByQuotation(quotationId)
       IN
       IF order = NoRef
       THEN Respond(404, NoRef) /\ UNCHANGED orders
       ELSE IF fail = 1
       THEN Respond(500, NoRef) /\ UNCHANGED orders
       ELSE /\ orders' = [orders EXCEPT ![order] =
                  [@ EXCEPT !.payment = [method |-> "razorpay",
                                         status |-> "completed",
                                         transactionId |-> razorpayPaymentId,
                                         amount |-> amount,
                                         paidAt |-> now,
                                         gateway |-> "razorpay"],
                            !.totalAmount = amount,
                            !.status = "confirmed",
                            !.confirmedAt = now]]
            /\ RespondNotified(200, order,
                  {Call(channel, "confirmed", order, "confirmed") :
                      channel \in {"email", "record", "websocket"}})

\* /verify that fetches the payment details without checking the signature
\* verification first
VerifyIgnoringVerification(actor, quotationId, verificationSuccess, detailsSuccess, amount, razorpayPaymentId, fail) ==
    /\ UNCHANGED <<deployed, inflight, now, inquiries, quotations,
                   nextInquiry, nextQuotation, nextOrder>>
    /\ IF ~detailsSuccess
       THEN Respond(400, NoRef) /\ UNCHANGED orders
       ELSE
       LET order == FindOrderByQuotation(quotationId)
       IN
       IF order = NoRef
       THEN Respond(404, NoRef) /\ UNCHANGED orders
       ELSE IF fail = 1
       THEN Respond(500, NoRef) /\ UNCHANGED orders
       ELSE /\ orders' = [orders EXCEPT ![order] =
                  [@ EXCEPT !.payment = [method |-> "razorpay",
                                         status |-> "completed",
                                         transactionId |-> razorpayPaymentId,
                                         amount |-> amount,
                                         paidAt |-> now,
                                         gateway |-> "razorpay"],
                            !.status = "confirmed",
                            !.confirmedAt = now]]
            /\ RespondNotified(200, order,
                  {Call(channel, "confirmed", order, "confirmed") :
                      channel \in {"email", "record", "websocket"}})

\* POST /api/payment/verify
\* verification and paymentDetails are the gateway's answers
Verify(actor, quotationId, verificationSuccess, detailsSuccess, amount, razorpayPaymentId, fail) ==
    /\ UNCHANGED <<deployed, inflight, now, inquiries, quotations,
                   nextInquiry, nextQuotation, nextOrder>>
    /\ IF ~verificationSuccess \/ ~detailsSuccess
       THEN Respond(400, NoRef) /\ UNCHANGED orders
       ELSE
       LET order == FindOrderByQuotation(quotationId)
       IN
       IF order = NoRef
       THEN Respond(404, NoRef) /\ UNCHANGED orders
       ELSE IF fail = 1
       THEN Respond(500, NoRef) /\ UNCHANGED orders
       ELSE /\ orders' = [orders EXCEPT ![order] =
                  [@ EXCEPT !.payment = [method |-> "razorpay",
                                         status |-> "completed",
                                         transactionId |-> razorpayPaymentId,
                                         amount |-> amount,
                                         paidAt |-> now,
                                         gateway |-> "razorpay"],
                            !.status = "confirmed",
                            !.confirmedAt = now]]
            /\ RespondNotified(200, order,
                  {Call(channel, "confirmed", order, "confirmed") :
                      channel \in {"email", "record", "websocket"}})

\* ------------------------------------------- order status (part_001, part_004)
\* requireBackOffice
IsBackOffice(u) == Role(u) \in {"admin", "backoffice", "subadmin"}

PaidStatuses ==
    {"delivered", "dispatched", "ready_for_dispatch", "in_production", "confirmed"}

\* the payment coupling that leaves a refunded payment alone
PaymentForUnlessRefunded(payment, status) ==
    IF status \in PaidStatuses /\ payment.status # "refunded"
    THEN [payment EXCEPT
            !.status = "completed",
            !.paidAt = IF @ = NoDate THEN now ELSE @,
            !.method = IF @ = None \/ @ = "pending" THEN "bank_transfer" ELSE @]
    ELSE IF status = "cancelled"
    THEN [payment EXCEPT !.status = "refunded"]
    ELSE payment

\* "Set payment status based on order status"
PaymentFor(payment, status) ==
    IF status \in PaidStatuses
    THEN [payment EXCEPT
            !.status = "completed",
            !.paidAt = IF @ = NoDate THEN now ELSE @,
            !.method = IF @ = None \/ @ = "pending" THEN "bank_transfer" ELSE @]
    ELSE IF status = "cancelled"
    THEN [payment EXCEPT !.status = "refunded"]
    ELSE payment

\* "Set specific timestamps based on status"
StampFor(order, status, estimatedDelivery) ==
    IF status = "confirmed" /\ order.confirmedAt = NoDate
    THEN [order EXCEPT !.confirmedAt = now]
    ELSE IF status = "in_production" /\ order.production.startDate = NoDate
    THEN [order EXCEPT
            !.production.startDate = now,
            !.production.estimatedCompletion =
                IF estimatedDelivery # NoDate THEN estimatedDelivery ELSE @]
    ELSE IF status = "ready_for_dispatch"
    THEN [order EXCEPT !.production.actualCompletion = now]
    ELSE IF status = "dispatched"
    THEN [order EXCEPT !.dispatch.dispatchedAt = now]
    ELSE IF status = "delivered"
    THEN [order EXCEPT !.dispatch.actualDelivery = now]
    ELSE order

\* PUT /api/admin/orders/:id/status
UpdateOrderStatus(actor, id, status, estimatedDelivery, fail) ==
    /\ UNCHANGED <<deployed, inflight, now, inquiries, quotations,
                   nextInquiry, nextQuotation, nextOrder>>
    /\ IF ~IsBackOffice(actor)
       THEN Respond(403, NoRef) /\ UNCHANGED orders
       ELSE IF id \notin DOMAIN orders
       THEN Respond(404, NoRef) /\ UNCHANGED orders
       ELSE IF fail = 1
       THEN Respond(500, NoRef) /\ UNCHANGED orders
       ELSE /\ orders' = [orders EXCEPT ![id] =
                  StampFor([@ EXCEPT !.status = status,
                                     !.payment = PaymentFor(@, status)],
                           status, estimatedDelivery)]
            /\ Respond(200, id)

\* PUT /api/admin/orders/:id/delivery
UpdateDeliveryDetails(actor, id, courier, trackingNumber, estimatedDelivery, fail) ==
    /\ UNCHANGED <<deployed, inflight, now, inquiries, quotations,
                   nextInquiry, nextQuotation, nextOrder>>
    /\ IF ~IsBackOffice(actor)
       THEN Respond(403, NoRef) /\ UNCHANGED orders
       ELSE IF id \notin DOMAIN orders
       THEN Respond(404, NoRef) /\ UNCHANGED orders
       ELSE IF fail = 1
       THEN Respond(500, NoRef) /\ UNCHANGED orders
       ELSE /\ orders' = [orders EXCEPT ![id] =
                  [@ EXCEPT !.dispatch.courier = courier,
                            !.dispatch.trackingNumber = trackingNumber,
                            !.dispatch.dispatchedAt = now,
                            !.status = "dispatched",
                            !.dispatch.estimatedDelivery =
                                IF estimatedDelivery # NoDate THEN estimatedDelivery ELSE @]]
            /\ Respond(200, id)

\* POST /api/dispatch/:orderId
DispatchOrder(actor, id, courier, trackingNumber, estimatedDelivery, fail) ==
    /\ UNCHANGED <<deployed, inflight, now, inquiries, quotations,
                   nextInquiry, nextQuotation, nextOrder>>
    /\ IF ~IsBackOffice(actor)
       THEN Respond(403, NoRef) /\ UNCHANGED orders
       ELSE IF id \notin DOMAIN orders
       THEN Respond(404, NoRef) /\ UNCHANGED orders
       ELSE IF orders[id].status # "ready_for_dispatch"
       THEN Respond(400, NoRef) /\ UNCHANGED orders
       ELSE IF fail = 1
       THEN Respond(500, NoRef) /\ UNCHANGED orders
       ELSE /\ orders' = [orders EXCEPT ![id] =
                  [@ EXCEPT !.status = "dispatched",
                            !.dispatch = [courier |-> courier,
                                          trackingNumber |-> trackingNumber,
                                          dispatchedAt |-> now,
                                          estimatedDelivery |-> estimatedDelivery,
                                          actualDelivery |-> NoDate]]]
            /\ RespondNotified(200, id, {Call("email", "dispatched", id, "dispatched"),
                                         Call("record", "dispatched", id, "dispatched")})

\* PUT /api/dispatch/:orderId
UpdateDispatch(actor, id, courier, trackingNumber, estimatedDelivery, fail) ==
    /\ UNCHANGED <<deployed, inflight, now, inquiries, quotations,
                   nextInquiry, nextQuotation, nextOrder>>
    /\ IF ~IsBackOffice(actor)
       THEN Respond(403, NoRef) /\ UNCHANGED orders
       ELSE IF id \notin DOMAIN orders
       THEN Respond(404, NoRef) /\ UNCHANGED orders
       ELSE IF orders[id].status \notin {"dispatched", "delivered"}
       THEN Respond(400, NoRef) /\ UNCHANGED orders
       ELSE IF fail = 1
       THEN Respond(500, NoRef) /\ UNCHANGED orders
       ELSE /\ orders' = [orders EXCEPT ![id].dispatch =
                  [@ EXCEPT !.trackingNumber = IF trackingNumber # None THEN trackingNumber ELSE @,
                            !.courier = IF courier # None THEN courier ELSE @,
                            !.estimatedDelivery =
                                IF estimatedDelivery # NoDate THEN estimatedDelivery ELSE @]]
            /\ Respond(200, id)

\* POST /api/dispatch/:orderId/delivered
MarkDelivered(actor, id, actualDelivery, fail) ==
    /\ UNCHANGED <<deployed, inflight, now, inquiries, quotations,
                   nextInquiry, nextQuotation, nextOrder>>
    /\ IF ~IsBackOffice(actor)
       THEN Respond(403, NoRef) /\ UNCHANGED orders
       ELSE IF id \notin DOMAIN orders
       THEN Respond(404, NoRef) /\ UNCHANGED orders
       ELSE IF orders[id].status # "dispatched"
       THEN Respond(400, NoRef) /\ UNCHANGED orders
       ELSE IF fail = 1
       THEN Respond(500, NoRef) /\ UNCHANGED orders
       ELSE /\ orders' = [orders EXCEPT ![id] =
                  [@ EXCEPT !.status = "delivered",
                            !.dispatch.actualDelivery = actualDelivery]]
            /\ Respond(200, id)

\* ------------------------------- acceptance handlers of part_004, await by await
\* A handler runs alone between two awaits and may be overtaken at each await.
\* A suspended request waits in `inflight` with the await it is at (pc) and
\* what it has loaded so far.
MaxRequests == 2

\* the request is answered
Finish(r) == inflight' = [k \in DOMAIN inflight \ {r} |-> inflight[k]]

\* requests take the lowest free slot
FreeSlot(r) ==
    /\ r \in 1..MaxRequests
    /\ r \notin DOMAIN inflight
    /\ \A k \in 1..(r - 1) : k \in DOMAIN inflight

Request(route, actor, id, response, selected) ==
    [route |-> route, actor |-> actor, id |-> id, response |-> response,
     pc |-> "quotation.save",
     quotation |-> quotations[id],
     hasInquiry |-> quotations[id].inquiry \in DOMAIN inquiries,
     deliveryAddress |->
        IF quotations[id].inquiry \in DOMAIN inquiries
        THEN DeliveryAddressOf(selected, inquiries[quotations[id].inquiry].deliveryAddress)
        ELSE EmptyAddress,
     order |-> NoRef]

\* POST /:id/response up to `await quotation.save()`: the load and its guards
ReceiveResponse(r, actor, id, response) ==
    /\ deployed = "part_004"
    /\ FreeSlot(r)
    /\ UNCHANGED <<deployed, now, stores>>
    /\ IF id \notin DOMAIN quotations
       THEN Respond(404, NoRef) /\ UNCHANGED inflight
       ELSE IF quotations[id].inquiry \notin DOMAIN inquiries
       THEN Respond(500, NoRef) /\ UNCHANGED inflight
       ELSE IF Role(actor) \notin {"customer", "admin"}
       THEN Respond(403, NoRef) /\ UNCHANGED inflight
       ELSE IF Role(actor) = "customer"
               /\ inquiries[quotations[id].inquiry].customer # actor
       THEN Respond(403, NoRef) /\ UNCHANGED inflight
       ELSE IF quotations[id].status # "sent"
       THEN Respond(400, NoRef) /\ UNCHANGED inflight
       ELSE /\ inflight' = inflight @@ (r :> Request("response", actor, id, response, FALSE))
            /\ UNCHANGED <<res, notified>>

\* POST /:id/accept up to `await quotation.save()`
ReceiveAccept(r, actor, id) ==
    /\ deployed = "part_004"
    /\ FreeSlot(r)
    /\ UNCHANGED <<deployed, now, stores>>
    /\ IF id \notin DOMAIN quotations
       THEN Respond(404, NoRef) /\ UNCHANGED inflight
       ELSE IF quotations[id].status # "sent"
       THEN Respond(400, NoRef) /\ UNCHANGED inflight
       ELSE IF now > quotations[id].validUntil
       THEN Respond(400, NoRef) /\ UNCHANGED inflight
       ELSE /\ inflight' = inflight @@ (r :> Request("accept", actor, id, "accepted", TRUE))
            /\ UNCHANGED <<res, notified>>

\* `await quotation.save()` completes: the modified paths are written, whatever
\* the stored document has become since it was loaded
SaveQuotation(r) ==
    /\ r \in DOMAIN inflight
    /\ inflight[r].pc = "quotation.save"
    /\ UNCHANGED <<deployed, now, inquiries, orders, nextInquiry, nextQuotation, nextOrder>>
    /\ LET req == inflight[r]
       IN  IF req.id \notin DOMAIN quotations
           THEN Respond(500, NoRef) /\ Finish(r) /\ UNCHANGED quotations
           ELSE /\ quotations' = [quotations EXCEPT ![req.id] =
                      IF req.route = "response"
                      THEN [@ EXCEPT !.status = req.response]
                      ELSE [@ EXCEPT !.status = "accepted", !.acceptedAt = now]]
                /\ inflight' = [inflight EXCEPT ![r].pc =
                      IF req.response = "accepted" THEN "Order.findOne"
                      ELSE "Inquiry.findByIdAndUpdate"]
                /\ UNCHANGED res
                \* /response tells the back office right after this save
                /\ IF req.route = "response"
                   THEN \E threw \in BOOLEAN : notified' =
                           [calls |-> {Call("record", req.response, req.id, req.response)},
                            threw |-> threw]
                   ELSE UNCHANGED notified

\* `await Order.findOne({ quotation })` completes
FindExistingOrder(r) ==
    /\ r \in DOMAIN inflight
    /\ inflight[r].pc = "Order.findOne"
    /\ UNCHANGED <<deployed, now, stores>>
    /\ LET req == inflight[r]
           existingOrder == FindOrderByQuotation(req.id)
       IN  IF existingOrder # NoRef
           THEN /\ Respond(200, IF req.route = "response" THEN existingOrder ELSE req.id)
                /\ Finish(r)
           ELSE IF ~req.hasInquiry
           \* quotation.inquiry._id of a null inquiry throws
           THEN Respond(500, NoRef) /\ Finish(r)
           ELSE /\ inflight' = [inflight EXCEPT ![r].pc = "order.save"]
                /\ UNCHANGED <<res, notified>>

\* `await order.save()` completes
SaveOrder(r) ==
    /\ r \in DOMAIN inflight
    /\ inflight[r].pc = "order.save"
    /\ nextOrder <= MaxOrders
    /\ UNCHANGED <<deployed, now, inquiries, quotations, nextInquiry, nextQuotation>>
    /\ LET req == inflight[r]
       IN  /\ orders' = orders @@ (nextOrder :>
                  NewOrder(req.id, req.quotation, req.actor, req.deliveryAddress))
           /\ nextOrder' = nextOrder + 1
           /\ IF req.route = "response"
              THEN /\ inflight' = [inflight EXCEPT ![r].pc = "Inquiry.findByIdAndUpdate",
                                                   ![r].order = nextOrder]
                   /\ UNCHANGED <<res, notified>>
              ELSE Respond(200, req.id) /\ Finish(r)

\* `await Inquiry.findByIdAndUpdate(...)` completes and /:id/response answers
UpdateInquiry(r) ==
    /\ r \in DOMAIN inflight
    /\ inflight[r].pc = "Inquiry.findByIdAndUpdate"
    /\ UNCHANGED <<deployed, now, quotations, orders, nextInquiry, nextQuotation, nextOrder>>
    /\ LET req == inflight[r]
           inquiry == req.quotation.inquiry
       IN  /\ inquiries' =
                IF inquiry \in DOMAIN inquiries
                THEN [inquiries EXCEPT ![inquiry].status =
                        IF req.response = "accepted" THEN "quoted" ELSE "rejected"]
                ELSE inquiries
           /\ Respond(200, req.order)
           /\ Finish(r)

\* ----------------------------------- create handler of part_004, await by await
\* the suffixes Math.random() may draw for the numbers of concurrent creates
MaxConcSuffix == 1

\* a create request suspended at an await, with what it has computed and loaded
CreateRequest(actor, inquiryId, parts, rnd) ==
    [route |-> "create", actor |-> actor, id |-> inquiryId,
     pc |-> "Quotation.findOne",
     parts |-> ProcessParts(parts),
     totalAmount |-> SumTotalPrice(ProcessParts(parts)),
     rnd |-> rnd,
     existingQuotation |-> NoRef,
     quotation |-> NoRef]

\* POST / up to `await Quotation.findOne(...)`: the permission check and
\* Inquiry.findById
ReceiveCreate(r, actor, inquiryId, parts, rnd) ==
    /\ deployed = "part_004"
    /\ FreeSlot(r)
    /\ UNCHANGED <<deployed, now, stores>>
    /\ IF ~HasQuotationPermission(actor)
       THEN Respond(403, NoRef) /\ UNCHANGED inflight
       ELSE IF inquiryId \notin DOMAIN inquiries
       THEN Respond(404, NoRef) /\ UNCHANGED inflight
       ELSE /\ inflight' = inflight @@ (r :> CreateRequest(actor, inquiryId, parts, rnd))
            /\ UNCHANGED <<res, notified>>

\* Quotation.findOne({ inquiry: inquiryId }) answers
FindExistingQuotation(r) ==
    /\ r \in DOMAIN inflight
    /\ inflight[r].pc = "Quotation.findOne"
    /\ UNCHANGED <<deployed, now, stores>>
    /\ LET existingQuotation == FindQuotationByInquiry(inflight[r].id)
       IN  IF existingQuotation = NoRef
           THEN /\ inflight' = [inflight EXCEPT ![r].pc = "quotation.save"]
                /\ UNCHANGED <<res, notified>>
           ELSE IF quotations[existingQuotation].status = "draft"
           THEN /\ inflight' = [inflight EXCEPT ![r].pc = "existingQuotation.save",
                                                ![r].existingQuotation = existingQuotation]
                /\ UNCHANGED <<res, notified>>
           ELSE Respond(400, existingQuotation) /\ Finish(r)

\* existingQuotation.save() of the draft found for the inquiry
SaveExistingQuotation(r) ==
    /\ r \in DOMAIN inflight
    /\ inflight[r].pc = "existingQuotation.save"
    /\ UNCHANGED <<deployed, now, inquiries, orders, nextInquiry, nextQuotation, nextOrder>>
    /\ LET req == inflight[r]
       IN  IF req.existingQuotation \notin DOMAIN quotations
           THEN Respond(500, NoRef) /\ Finish(r) /\ UNCHANGED quotations
           ELSE /\ quotations' = [quotations EXCEPT ![req.existingQuotation] =
                      [@ EXCEPT !.parts = req.parts,
                                !.totalAmount = req.totalAmount,
                                !.terms = DefaultTerms,
                                !.validUntil = ValidUntilOrDefault(NoDate),
                                !.isUploadQuotation = FALSE]]
                /\ Respond(200, req.existingQuotation)
                /\ Finish(r)

\* quotation.save() of the new Quotation: the number is drawn in pre('validate')
\* and the unique index on quotationNumber refuses a number already stored
SaveNewQuotation(r) ==
    /\ r \in DOMAIN inflight
    /\ inflight[r].pc = "quotation.save"
    /\ UNCHANGED <<deployed, now, inquiries, orders, nextInquiry, nextOrder>>
    /\ LET req == inflight[r]
           quotationNumber == GenerateQuotationNumber(req.rnd)
       IN  IF NumberTaken(quotationNumber)
           THEN Respond(500, NoRef) /\ Finish(r) /\ UNCHANGED <<quotations, nextQuotation>>
           ELSE /\ nextQuotation <= MaxQuotations
                /\ quotations' = quotations @@ (nextQuotation :>
                      [inquiry |-> req.id,
                       inquiryId |-> NoRef,
                       quotationNumber |-> quotationNumber,
                       status |-> "draft",
                       parts |-> req.parts,
                       items |-> <<>>,
                       totalAmount |-> req.totalAmount,
                       currency |-> "USD",
                       validUntil |-> ValidUntilOrDefault(NoDate),
                       terms |-> DefaultTerms,
                       isUploadQuotation |-> FALSE,
                       sentAt |-> NoDate,
                       acceptedAt |-> NoDate,
                       rejectedAt |-> NoDate,
                       orderCreatedAt |-> NoDate])
                /\ nextQuotation' = nextQuotation + 1
                /\ inflight' = [inflight EXCEPT ![r].pc = "inquiry.save",
                                                ![r].quotation = nextQuotation]
                /\ UNCHANGED <<res, notified>>

\* inquiry.status = 'quoted'; inquiry.quotation = quotation._id; inquiry.save()
SaveInquiry(r) ==
    /\ r \in DOMAIN inflight
    /\ inflight[r].pc = "inquiry.save"
    /\ UNCHANGED <<deployed, now, quotations, orders, nextInquiry, nextQuotation, nextOrder>>
    /\ LET req == inflight[r]
       IN  IF req.id \notin DOMAIN inquiries
           THEN Respond(500, NoRef) /\ Finish(r) /\ UNCHANGED inquiries
           ELSE /\ inquiries' = [inquiries EXCEPT ![req.id] =
                      [@ EXCEPT !.status = "quoted", !.quotation = req.quotation]]
                /\ Respond(201, req.quotation)
                /\ Finish(r)

\* ------------------------------------------------------------ request inputs
InquiryIds == 1..MaxInquiries
QuotationIds == 1..MaxQuotations
OrderIds == 1..MaxOrders

\* a customer's address: street, city and country are required, the rest optional
AddressInputs ==
    {[street |-> "1 Main St", city |-> "Pune", state |-> None,
      country |-> "IN", zipCode |-> None]}

\* line items as the caller sends them; totalPrice is the caller's own figure
Catalogue ==
    <<[unitPrice |-> 10, quantity |-> 5, totalPrice |-> 50],
      [unitPrice |-> 20, quantity |-> 2, totalPrice |-> 7],
      [unitPrice |-> 3, quantity |-> 1, totalPrice |-> 0]>>

\* request bodies carry the first n catalogue lines
PartLists == {SubSeq(Catalogue, 1, n) : n \in 1..MaxParts}

AmountInputs == {7, 90}
\* terms and validUntil: both left out, or both given (a date that passes)
OptionInputs == {[terms |-> None, validUntil |-> NoDate],
                 [terms |-> "net 30", validUntil |-> 0]}
Responses == {"accepted", "rejected"}

\* callers: the inquiry's customer, another customer, and staff
InquiryActors == {"c1"}
StaffActors == {"admin", "c1"}

\* which store write of a handler throws: none, or one after the first (a
\* failure of the first write leaves every store as it was)
FailInputs(writes) == {0} \cup 2..writes

NoOptions == [terms |-> None, validUntil |-> NoDate]

\* POST / bodies: an itemised quotation (the caller's total is 7) or an
\* uploaded one (one line, the caller's total is what is stored)
CreateBodies(Parts, Amounts, Options) ==
    {[parts |-> parts, totalAmount |-> Min(Amounts), opt |-> opt, isUploadQuotation |-> FALSE] :
        parts \in Parts, opt \in Options}
    \cup {[parts |-> SubSeq(Catalogue, 1, 1), totalAmount |-> totalAmount, opt |-> NoOptions,
           isUploadQuotation |-> TRUE] : totalAmount \in Amounts}

\* a staff request with each body and each failure, and one request of a caller
\* without the permission
CreateRequests(Parts, Amounts, Options) ==
    {[actor |-> "admin", body |-> body, fail |-> fail] :
        body \in CreateBodies(Parts, Amounts, Options), fail \in FailInputs(2)}
    \cup {[actor |-> "c1", body |-> body, fail |-> 0] :
            body \in {[parts |-> SubSeq(Catalogue, 1, 1), totalAmount |-> Min(Amounts),
                       opt |-> NoOptions, isUploadQuotation |-> FALSE]}}

UpdateRequests(Parts, Options) ==
    {[actor |-> "admin", parts |-> parts, opt |-> opt] : parts \in Parts, opt \in Options}
    \cup {[actor |-> "c1", parts |-> SubSeq(Catalogue, 1, 1), opt |-> NoOptions]}

\* the inquiry's customer with each response and each failure; every other
\* caller accepts
RespondRequests(responses, writes) ==
    {[actor |-> "c1", response |-> response, fail |-> fail] :
        response \in responses, fail \in FailInputs(writes)}
    \cup {[actor |-> actor, response |-> "accepted", fail |-> 0] : actor \in Users \ {"c1"}}

\* ------------------------------------------------------------ specification
QuotationRoutes4(Parts, Amounts, Options) ==
    \/ \E req \in CreateRequests(Parts, Amounts, Options), inquiryId \in InquiryIds,
          rnd \in 0..MaxSuffix :
            CreateQuotation4(req.actor, inquiryId, req.body.parts, req.body.totalAmount,
                             req.body.opt.terms, req.body.opt.validUntil,
                             req.body.isUploadQuotation, rnd, req.fail)
    \/ \E req \in UpdateRequests(Parts, Options), id \in QuotationIds :
            UpdateQuotation4(req.actor, id, req.parts, req.opt.terms, req.opt.validUntil, 0)
    \/ \E actor \in StaffActors, id \in QuotationIds :
            SendQuotation4(actor, id, 0)
    \/ \E actor \in StaffActors, id \in QuotationIds :
            DeleteQuotation4(actor, id, 0)
    \/ \E req \in RespondRequests(Responses, 3), id \in QuotationIds :
            RespondQuotation4(req.actor, id, req.response, req.fail)
    \/ \E actor \in {"c1", "admin"}, id \in QuotationIds, fail \in FailInputs(2) :
            AcceptQuotation4(actor, id, fail)
    \/ \E id \in QuotationIds :
            RejectQuotation4("c1", id, 0)

QuotationRoutes3(Parts, Amounts) ==
    \/ \E actor \in StaffActors, inquiryId \in InquiryIds, parts \in Parts,
          totalAmount \in Amounts, fail \in 0..2 :
            CreateQuotation3(actor, inquiryId, parts, totalAmount, fail)
    \/ \E hasFile \in BOOLEAN :
            UploadQuotation3("admin", hasFile)
    \/ \E actor \in StaffActors, id \in QuotationIds :
            SendQuotation3(actor, id, 0)
    \/ \E req \in RespondRequests(Responses \cup {"maybe"}, 2), id \in QuotationIds :
            RespondQuotation3(req.actor, id, req.response, req.fail)

InquiryRoutes ==
    \/ \E actor \in InquiryActors, address \in AddressInputs : CreateInquiry(actor, address)
    \/ \E actor \in Customers, id \in InquiryIds : DeleteInquiry(actor, id)

\* POST /api/payment/update-order, the payment route that writes a Quotation
UpdateOrderRoute(Amounts) ==
    \E quotationId \in QuotationIds, paymentAmount \in Amounts, fail \in FailInputs(2) :
        UpdateOrder("c1", quotationId, "bank_transfer", 1, paymentAmount, fail)

\* the quotation life cycle: every route of the mounted quotation router with
\* the full request bodies, and the payment route that writes a Quotation
Next ==
    \/ Tick
    \/ InquiryRoutes
    \/ QuotationRoutes4(PartLists, AmountInputs, OptionInputs)
    \/ QuotationRoutes3(PartLists, AmountInputs)
    \/ UpdateOrderRoute({50, 90})

Spec == Init /\ [][Next]_vars

\* what a payer sends or the gateway reports: the total of the two-line
\* quotation, and the total of its first line alone
PaidAmounts == {50, 90}

\* /verify requests by what the gateway answers: a valid payment of either
\* amount, a bad signature, and payment details that cannot be fetched
VerifyRequests ==
    {[verification |-> TRUE, details |-> TRUE, amount |-> amount] : amount \in PaidAmounts}
    \cup {[verification |-> FALSE, details |-> TRUE, amount |-> 90],
          [verification |-> TRUE, details |-> FALSE, amount |-> 90]}

\* the other payment routes
PaymentRoutes ==
    \/ \E orderId \in OrderIds, amount \in PaidAmounts :
            Initialize("c1", orderId, "razorpay", amount, 0)
    \/ \E orderId \in OrderIds, paymentSuccess \in BOOLEAN :
            Process("c1", orderId, paymentSuccess, 0, 0)
    \/ \E orderId \in OrderIds :
            Refund("admin", orderId, NoAmount, 0)
    \/ \E quotationId \in QuotationIds, req \in VerifyRequests :
            Verify("c1", quotationId, req.verification, req.details, req.amount, 2, 0)

\* the states the back office sets by hand on the way to dispatch
OrderStatuses == {"confirmed", "in_production", "ready_for_dispatch", "cancelled"}

\* the back-office order routes
OrderRoutes ==
    \/ \E id \in OrderIds, status \in OrderStatuses :
            UpdateOrderStatus("admin", id, status, NoDate, 0)
    \/ \E id \in OrderIds :
            UpdateDeliveryDetails("admin", id, "dhl", "trk1", NoDate, 0)
    \/ \E id \in OrderIds :
            DispatchOrder("admin", id, "dhl", "trk1", NoDate, 0)
    \/ \E id \in OrderIds :
            UpdateDispatch("admin", id, None, "trk2", NoDate, 0)
    \/ \E id \in OrderIds :
            MarkDelivered("admin", id, NoDate, 0)

\* quotation to delivery at one instant: one two-line quotation is created and
\* sent by staff, then every route that answers it, pays it or moves its Order
NextOrders ==
    \/ \E address \in AddressInputs : CreateInquiry("c1", address)
    \/ \E inquiryId \in InquiryIds :
            CreateQuotation4("admin", inquiryId, SubSeq(Catalogue, 1, 2), 90,
                             None, NoDate, FALSE, 0, 0)
    \/ \E id \in QuotationIds : SendQuotation4("admin", id, 0)
    \/ \E req \in RespondRequests(Responses, 3), id \in QuotationIds :
            RespondQuotation4(req.actor, id, req.response, req.fail)
    \/ \E actor \in {"c1", "admin"}, id \in QuotationIds, fail \in FailInputs(2) :
            AcceptQuotation4(actor, id, fail)
    \/ \E id \in QuotationIds : AcceptQuotation4("c2", id, 0)
    \/ \E actor \in Customers, id \in QuotationIds : RejectQuotation4(actor, id, 0)
    \/ \E id \in QuotationIds :
            UpdateQuotation4("admin", id, SubSeq(Catalogue, 1, 1), None, NoDate, 0)
    \/ \E inquiryId \in InquiryIds :
            CreateQuotation3("admin", inquiryId, SubSeq(Catalogue, 1, 2), 90, 0)
    \/ \E id \in QuotationIds : SendQuotation3("admin", id, 0)
    \/ \E req \in RespondRequests(Responses, 2), id \in QuotationIds :
            RespondQuotation3(req.actor, id, req.response, req.fail)
    \/ UpdateOrderRoute(PaidAmounts)
    \/ PaymentRoutes
    \/ OrderRoutes

SpecOrders == Init /\ [][NextOrders]_vars

\* the statuses PUT /orders/:id/status accepts
AllOrderStatuses ==
    {"pending", "confirmed", "in_production", "ready_for_dispatch", "dispatched",
     "delivered", "cancelled"}

\* the estimated delivery date a back-office user supplies with in_production
DeliveryDates == {MaxTime + 4}

\* payment and fulfilment of one Order: a quotation is created, sent and
\* accepted by its customer, then every payment route and every back-office
\* route runs with every status, with and without a refund amount, and with
\* callers who are not back office
NextFulfilment ==
    \/ \E address \in AddressInputs : CreateInquiry("c1", address)
    \/ \E inquiryId \in InquiryIds :
            CreateQuotation4("admin", inquiryId, SubSeq(Catalogue, 1, 2), 90,
                             None, NoDate, FALSE, 0, 0)
    \/ \E id \in QuotationIds : SendQuotation4("admin", id, 0)
    \/ \E id \in QuotationIds : AcceptQuotation4("c1", id, 0)
    \/ \E orderId \in OrderIds, amount \in PaidAmounts :
            Initialize("c1", orderId, "razorpay", amount, 0)
    \/ \E orderId \in OrderIds, paymentSuccess \in BOOLEAN :
            Process("c1", orderId, paymentSuccess, 0, 0)
    \/ \E actor \in {"admin", "c1"}, orderId \in OrderIds, amount \in {NoAmount, 50} :
            Refund(actor, orderId, amount, 0)
    \/ \E quotationId \in QuotationIds, req \in VerifyRequests :
            Verify("c1", quotationId, req.verification, req.details, req.amount, 2, 0)
    \/ UpdateOrderRoute({90})
    \/ \E actor \in {"admin", "c1"}, id \in OrderIds, status \in AllOrderStatuses :
            UpdateOrderStatus(actor, id, status, NoDate, 0)
    \/ \E id \in OrderIds, estimatedDelivery \in DeliveryDates :
            UpdateOrderStatus("admin", id, "in_production", estimatedDelivery, 0)
    \/ \E actor \in {"admin", "c1"}, id \in OrderIds :
            UpdateDeliveryDetails(actor, id, "dhl", "trk1", NoDate, 0)
    \/ \E actor \in {"admin", "c1"}, id \in OrderIds :
            DispatchOrder(actor, id, "dhl", "trk1", NoDate, 0)
    \/ \E id \in OrderIds :
            UpdateDispatch("admin", id, None, "trk2", NoDate, 0)
    \/ \E id \in OrderIds :
            MarkDelivered("admin", id, NoDate, 0)

SpecFulfilment == Init /\ [][NextFulfilment]_vars

\* concurrent acceptance: one quotation is created and sent by staff, then
\* acceptance requests run interleaved at their awaits
NextConc ==
    \/ \E address \in AddressInputs : CreateInquiry("c1", address)
    \/ \E inquiryId \in InquiryIds :
            CreateQuotation4("admin", inquiryId, SubSeq(Catalogue, 1, 2), 90,
                             None, NoDate, FALSE, 0, 0)
    \/ \E id \in QuotationIds : SendQuotation4("admin", id, 0)
    \/ \E r \in 1..MaxRequests, actor \in {"c1", "c2"}, id \in QuotationIds,
          response \in Responses :
            ReceiveResponse(r, actor, id, response)
    \/ \E r \in 1..MaxRequests, id \in QuotationIds : ReceiveAccept(r, "c1", id)
    \/ \E r \in 1..MaxRequests : SaveQuotation(r)
    \/ \E r \in 1..MaxRequests : FindExistingOrder(r)
    \/ \E r \in 1..MaxRequests : SaveOrder(r)
    \/ \E r \in 1..MaxRequests : UpdateInquiry(r)

SpecConc == Init /\ [][NextConc]_vars

\* concurrent creation: staff create requests for the inquiries run
\* interleaved at their awaits, each drawing its own number suffix
NextCreate ==
    \/ \E address \in AddressInputs : CreateInquiry("c1", address)
    \/ \E r \in 1..MaxRequests, actor \in StaffActors, inquiryId \in InquiryIds,
          parts \in PartLists, rnd \in 0..MaxConcSuffix :
            ReceiveCreate(r, actor, inquiryId, parts, rnd)
    \/ \E r \in 1..MaxRequests : FindExistingQuotation(r)
    \/ \E r \in 1..MaxRequests : SaveExistingQuotation(r)
    \/ \E r \in 1..MaxRequests : SaveNewQuotation(r)
    \/ \E r \in 1..MaxRequests : SaveInquiry(r)

SpecCreate == Init /\ [][NextCreate]_vars

\* ------------------------------------------------------------- properties
\* the Orders that reference a Quotation
OrdersOf(quotationId) == {o \in DOMAIN orders : orders[o].quotation = quotationId}

\* the Inquiry a Quotation references and its line items, under the field
\* names of the mounted router
InquiryOf(q) == IF deployed = "part_004" THEN q.inquiry ELSE q.inquiryId
LinesOf(q) == IF deployed = "part_004" THEN q.parts ELSE q.items

\* a create request of staff that meets no store failure, on either router
CreateCall(req, inquiryId) ==
    \/ CreateQuotation4(req.actor, inquiryId, req.body.parts, req.body.totalAmount,
                        req.body.opt.terms, req.body.opt.validUntil,
                        req.body.isUploadQuotation, 0, req.fail)
    \/ CreateQuotation3(req.actor, inquiryId, req.body.parts, req.body.totalAmount, req.fail)

\* a send request on either router
SendCall(id) ==
    \E actor \in Users : SendQuotation4(actor, id, 0) \/ SendQuotation3(actor, id, 0)

\* an accept or reject request through any response route
RespondCall(id) ==
    \E actor \in Users :
        \/ \E response \in Responses : RespondQuotation4(actor, id, response, 0)
        \/ \E response \in Responses : RespondQuotation3(actor, id, response, 0)
        \/ AcceptQuotation4(actor, id, 0)
        \/ RejectQuotation4(actor, id, 0)

\* C1: in every state reached by quotation response/accept, payment and order
\* status operations, at most one Order references any given Quotation.
OneOrderPerQuotation ==
    \A a, b \in DOMAIN orders : orders[a].quotation = orders[b].quotation => a = b

\* C1 witness: the Order of an accepted Quotation was paid through
\* update-order and dispatched
OneOrderPerQuotationWitness ==
    \E o \in DOMAIN orders :
        /\ orders[o].quotation \in DOMAIN quotations
        /\ quotations[orders[o].quotation].status = "order_created"
        /\ orders[o].payment.status = "completed"
        /\ orders[o].status = "dispatched"

\* C2: when two accept requests for one sent Quotation run interleaved at
\* their awaits, no interleaving ends with two Orders referencing it.
NoDuplicateOrderAfterConcurrentAccepts ==
    inflight = <<>> =>
        \A q \in DOMAIN quotations : Cardinality(OrdersOf(q)) <= 1

\* C3: a retried respond(accepted) by the customer on a Quotation that is
\* accepted and has its Order succeeds, returns that Order and changes nothing.
RetriedAcceptReturnsExistingOrder ==
    [][\A id \in QuotationIds :
          (/\ id \in DOMAIN quotations
           /\ quotations[id].status = "accepted"
           /\ OrdersOf(id) # {}
           /\ \E actor \in Customers :
                 /\ InquiryOf(quotations[id]) \in DOMAIN inquiries
                 /\ inquiries[InquiryOf(quotations[id])].customer = actor
                 /\ \/ RespondQuotation4(actor, id, "accepted", 0)
                    \/ RespondQuotation3(actor, id, "accepted", 0))
          => /\ res'.code = 200
             /\ res'.ref \in OrdersOf(id)
             /\ UNCHANGED stores]_vars

\* C4: when no request is in progress, every Quotation with status accepted
\* has exactly one Order referencing it, also after a failed Order save.
AcceptedQuotationHasOneOrder ==
    inflight = <<>> =>
        \A q \in DOMAIN quotations :
            quotations[q].status = "accepted" => Cardinality(OrdersOf(q)) = 1

\* C5: after any sequence of quotation create, upload, update and delete
\* operations at most one existing Quotation references any given Inquiry.
OneQuotationPerInquiry ==
    \A a, b \in DOMAIN quotations :
        InquiryOf(quotations[a]) = InquiryOf(quotations[b]) => a = b

\* C5 witness: a draft was deleted, its Inquiry quoted again and the new
\* Quotation sent; a further create was refused with that Quotation's id
OneQuotationPerInquiryWitness ==
    /\ DOMAIN quotations = {2}
    /\ quotations[2].status = "sent"
    /\ res = [code |-> 400, ref |-> 2]

\* C6: create for an Inquiry that already has a Quotation updates a draft in
\* place (same id and number, still draft, no new Quotation) and otherwise
\* fails with the existing id, leaving every Quotation and the Inquiry as is.
CreateOnExistingQuotation ==
    [][\A inquiryId \in InquiryIds :
       \A req \in {c \in CreateRequests(PartLists, AmountInputs, OptionInputs) :
                     c.actor = "admin" /\ c.fail = 0} :
          LET existing == FindOne({k \in DOMAIN quotations :
                                        InquiryOf(quotations[k]) = inquiryId})
          IN  (/\ inquiryId \in DOMAIN inquiries
               /\ existing # NoRef
               /\ CreateCall(req, inquiryId))
              => IF quotations[existing].status = "draft"
                 THEN /\ res'.code = 200
                      /\ res'.ref = existing
                      /\ DOMAIN quotations' = DOMAIN quotations
                      /\ quotations'[existing].quotationNumber
                            = quotations[existing].quotationNumber
                      /\ quotations'[existing].status = "draft"
                 ELSE /\ res'.code >= 400
                      /\ res'.ref = existing
                      /\ UNCHANGED <<quotations, inquiries>>]_vars

\* C7: in every Quotation that is not in upload mode each line's totalPrice is
\* unitPrice x quantity and totalAmount is the sum of the lines' totalPrice,
\* whatever totals the caller supplied.
ItemisedTotalsAreComputed ==
    \A q \in DOMAIN quotations :
        ~quotations[q].isUploadQuotation =>
            LET lines == LinesOf(quotations[q])
            IN  /\ \A k \in DOMAIN lines :
                      lines[k].totalPrice = lines[k].unitPrice * lines[k].quantity
                /\ quotations[q].totalAmount = SumTotalPrice(lines)

\* C8: send succeeds only on a draft, which it turns to sent with sentAt
\* stamped; on any other status it fails and leaves the Quotation unchanged.
SendOnlyFromDraft ==
    [][\A id \in QuotationIds :
          (id \in DOMAIN quotations /\ SendCall(id))
          => /\ res'.code = 200
                => /\ quotations[id].status = "draft"
                   /\ quotations'[id].status = "sent"
                   /\ quotations'[id].sentAt = now
             /\ quotations[id].status # "draft"
                => res'.code >= 400 /\ UNCHANGED quotations]_vars

\* C9: once a Quotation has left draft no operation changes its line items,
\* totalAmount, terms or validUntil.
FrozenOnceSent ==
    [][\A id \in DOMAIN quotations :
          (quotations[id].status # "draft" /\ id \in DOMAIN quotations')
          => /\ LinesOf(quotations'[id]) = LinesOf(quotations[id])
             /\ quotations'[id].totalAmount = quotations[id].totalAmount
             /\ quotations'[id].terms = quotations[id].terms
             /\ quotations'[id].validUntil = quotations[id].validUntil]_vars

\* C10: an accept or reject through any response route changes state only
\* when the Quotation is sent; from any other status it fails and leaves the
\* Quotation, the Inquiry and the Orders unchanged.
RespondOnlyFromSent ==
    [][\A id \in QuotationIds :
          (id \in DOMAIN quotations /\ quotations[id].status # "sent" /\ RespondCall(id))
          => /\ res'.code >= 400
             /\ UNCHANGED <<quotations, inquiries, orders>>]_vars

\* the customer of the Inquiry a Quotation references, when that Inquiry exists
IsCustomerOf(actor, id) ==
    /\ InquiryOf(quotations[id]) \in DOMAIN inquiries
    /\ inquiries[InquiryOf(quotations[id])].customer = actor

\* an accept request of one caller through any acceptance route
AcceptCall(actor, id) ==
    \/ RespondQuotation4(actor, id, "accepted", 0)
    \/ RespondQuotation3(actor, id, "accepted", 0)
    \/ AcceptQuotation4(actor, id, 0)

\* a reject request of one caller through any rejection route
RejectCall(actor, id) ==
    \/ RespondQuotation4(actor, id, "rejected", 0)
    \/ RespondQuotation3(actor, id, "rejected", 0)
    \/ RejectQuotation4(actor, id, 0)

\* C11: an accept by the customer on a sent Quotation whose validUntil has
\* passed fails, turns the Quotation to expired and creates no Order; no
\* step turns a Quotation to accepted after its validUntil.
ExpiredQuotationIsNotAccepted ==
    [][\A id \in DOMAIN quotations :
          (quotations[id].validUntil # NoDate /\ now > quotations[id].validUntil)
          => /\ (/\ quotations[id].status = "sent"
                 /\ \E actor \in Customers : IsCustomerOf(actor, id) /\ AcceptCall(actor, id))
                => /\ res'.code >= 400
                   /\ quotations'[id].status = "expired"
                   /\ orders' = orders
             /\ (id \in DOMAIN quotations' /\ quotations[id].status # "accepted")
                => quotations'[id].status # "accepted"]_vars

\* C12: an accept or reject request of a caller who is neither the customer
\* of the Quotation's Inquiry nor an admin leaves the Quotations and the
\* Orders unchanged, on every response route.
OnlyCustomerOrAdminResponds ==
    [][\A id \in DOMAIN quotations : \A actor \in Users :
          (/\ Role(actor) # "admin"
           /\ ~IsCustomerOf(actor, id)
           /\ (AcceptCall(actor, id) \/ RejectCall(actor, id)))
          => UNCHANGED <<quotations, orders>>]_vars

\* C13: a successful rejection of a sent Quotation sets its status to
\* rejected, stamps rejectedAt, sets the Inquiry's status to rejected and
\* creates no Order, on every rejection route.
RejectionIsRecorded ==
    [][\A id \in DOMAIN quotations :
          (/\ quotations[id].status = "sent"
           /\ InquiryOf(quotations[id]) \in DOMAIN inquiries
           /\ \E actor \in Users : RejectCall(actor, id)
           /\ res'.code = 200)
          => /\ quotations'[id].status = "rejected"
             /\ quotations'[id].rejectedAt # NoDate
             /\ inquiries'[InquiryOf(quotations[id])].status = "rejected"
             /\ orders' = orders]_vars

\* C14: an Order created by an acceptance starts with status pending,
\* payment.status pending and payment.method pending, and its totalAmount,
\* currency and line items are those the Quotation had when it was accepted.
NewOrderSnapshotsQuotation ==
    [][\A o \in DOMAIN orders' \ DOMAIN orders :
          LET order == orders'[o]
              quotation == quotations[order.quotation]
          IN  /\ order.status = "pending"
              /\ order.payment.status = "pending"
              /\ order.payment.method = "pending"
              /\ order.totalAmount = quotation.totalAmount
              /\ order.currency = quotation.currency
              /\ order.parts = quotation.parts]_vars

\* C14 witness: the acceptance of a sent two-line Quotation has just answered
\* with success and its Order is there, unpaid
NewOrderSnapshotsQuotationWitness ==
    \E o \in DOMAIN orders :
        /\ res.code = 200
        /\ orders[o].quotation \in DOMAIN quotations
        /\ quotations[orders[o].quotation].status = "accepted"
        /\ orders[o].status = "pending"
        /\ orders[o].payment.status = "pending"
        /\ Len(orders[o].parts) = 2
        /\ orders[o].totalAmount = 90

\* C15: no quotation update, payment operation or order status update changes
\* the totalAmount or the line items of an existing Order.
OrderTotalsNeverChange ==
    [][\A o \in DOMAIN orders :
          /\ orders'[o].totalAmount = orders[o].totalAmount
          /\ orders'[o].parts = orders[o].parts]_vars

\* C15 witness: the Quotation was edited after its Order was created, and the
\* Order was then paid and moved on to dispatched
OrderTotalsNeverChangeWitness ==
    \E o \in DOMAIN orders :
        /\ orders[o].quotation \in DOMAIN quotations
        /\ quotations[orders[o].quotation].totalAmount # orders[o].totalAmount
        /\ quotations[orders[o].quotation].parts # orders[o].parts
        /\ orders[o].payment.status = "completed"
        /\ orders[o].payment.amount # NoAmount
        /\ orders[o].status = "dispatched"

\* the edges of the Order life cycle
StatusEdges ==
    {<<"pending", "confirmed">>, <<"confirmed", "in_production">>,
     <<"in_production", "ready_for_dispatch">>, <<"ready_for_dispatch", "dispatched">>,
     <<"dispatched", "delivered">>,
     <<"pending", "cancelled">>, <<"confirmed", "cancelled">>,
     <<"in_production", "cancelled">>}

\* C16: every change of an Order's status, by any operation, follows an edge
\* of the Order life cycle; cancelled and delivered are never left.
OrderStatusFollowsEdges ==
    [][\A o \in DOMAIN orders :
          orders'[o].status # orders[o].status
          => <<orders[o].status, orders'[o].status>> \in StatusEdges]_vars

\* a confirm request on the Order of a Quotation through any payment route
ConfirmCall(quotationId, orderId, amount, transactionId) ==
    \/ Process("c1", orderId, TRUE, 0, 0)
    \/ UpdateOrder("c1", quotationId, "bank_transfer", transactionId, amount, 0)
    \/ Verify("c1", quotationId, TRUE, TRUE, amount, transactionId, 0)

\* C17: a confirm (process, update-order or verify) applied to an Order whose
\* status is beyond pending leaves the Order's status unchanged.
ConfirmOnlyFromPending ==
    [][\A quotationId \in QuotationIds : \A o \in OrdersOf(quotationId) :
       \A amount \in PaidAmounts, transactionId \in {1, 2} :
          (orders[o].status # "pending" /\ ConfirmCall(quotationId, o, amount, transactionId))
          => orders'[o].status = orders[o].status]_vars

\* C18: a confirm repeated with the transaction id, method and amount the
\* Order already records as paid reports success and leaves the Order's
\* status and every payment field as the first confirm left them.
ConfirmIsIdempotent ==
    [][\A quotationId \in QuotationIds : \A o \in OrdersOf(quotationId) :
          (/\ orders[o].status = "confirmed"
           /\ orders[o].payment.status = "completed"
           /\ \/ /\ orders[o].payment.gateway = "manual"
                 /\ UpdateOrder("c1", quotationId, orders[o].payment.method,
                                orders[o].payment.transactionId,
                                orders[o].payment.amount, 0)
              \/ /\ orders[o].payment.gateway = "razorpay"
                 /\ Verify("c1", quotationId, TRUE, TRUE, orders[o].payment.amount,
                           orders[o].payment.transactionId, 0))
          => /\ res'.code = 200
             /\ orders'[o].status = orders[o].status
             /\ orders'[o].payment = orders[o].payment]_vars

\* C19: a confirm through process, update-order or verify succeeds only with
\* a paid amount equal to the Order's totalAmount, and after it
\* payment.amount equals the Order's totalAmount.
ConfirmedAmountMatchesTotal ==
    [][\A quotationId \in QuotationIds : \A o \in OrdersOf(quotationId) :
       \A amount \in PaidAmounts, transactionId \in {1, 2} :
          (ConfirmCall(quotationId, o, amount, transactionId) /\ res'.code = 200)
          => /\ amount = orders[o].totalAmount
             /\ orders'[o].payment.amount = orders'[o].totalAmount]_vars

\* C20: initialize called by the Order's customer records the payment as
\* processing (method, amount) and leaves the status pending when the Order
\* is pending and the amount is its totalAmount; otherwise it fails and
\* leaves the Order unchanged.
InitializeRecordsProcessing ==
    [][\A o \in DOMAIN orders : \A amount \in PaidAmounts :
          Initialize(orders[o].customer, o, "razorpay", amount, 0)
          => IF orders[o].status = "pending" /\ amount = orders[o].totalAmount
             THEN /\ res'.code = 200
                  /\ orders'[o].payment.method = "razorpay"
                  /\ orders'[o].payment.amount = amount
                  /\ orders'[o].payment.status = "processing"
                  /\ orders'[o].status = "pending"
             ELSE /\ res'.code >= 400
                  /\ orders' = orders]_vars

\* C21: a successful updateStatus to confirmed, in_production,
\* ready_for_dispatch, dispatched or delivered leaves payment.status
\* completed, whatever the Order's status and payment status were before.
PaidStatusCompletesPayment ==
    [][\A o \in DOMAIN orders : \A status \in PaidStatuses :
          UpdateOrderStatus("admin", o, status, NoDate, 0)
          => /\ res'.code = 200
             /\ orders'[o].status = status
             /\ orders'[o].payment.status = "completed"]_vars

\* C21 witness: a refund of 50 was noted on the Order and a later status
\* update to delivered has made its payment completed again
PaidStatusCompletesPaymentWitness ==
    \E o \in DOMAIN orders :
        /\ orders[o].notes = 50
        /\ orders[o].status = "delivered"
        /\ orders[o].payment.status = "completed"
        /\ orders[o].dispatch.actualDelivery # NoDate

\* C22: a dispatch request (courier and tracking number) on an Order that is
\* not ready_for_dispatch fails and leaves the Order unchanged, on the
\* dispatch route and on the delivery-details route.
DispatchOnlyFromReady ==
    [][\A o \in DOMAIN orders :
          (/\ orders[o].status # "ready_for_dispatch"
           /\ \E actor \in Users :
                 \/ DispatchOrder(actor, o, "dhl", "trk1", NoDate, 0)
                 \/ UpdateDeliveryDetails(actor, o, "dhl", "trk1", NoDate, 0))
          => /\ res'.code >= 400
             /\ orders' = orders]_vars

\* C23: a payment attempt of the Order's customer that fails sets
\* payment.status to failed and leaves the Order's status unchanged, and on a
\* pending Order whose payment failed initialize succeeds again.
FailedPaymentKeepsOrderPending ==
    [][\A o \in DOMAIN orders :
          /\ Process(orders[o].customer, o, FALSE, 0, 0)
             => /\ orders'[o].payment.status = "failed"
                /\ orders'[o].status = orders[o].status
          /\ (/\ orders[o].payment.status = "failed"
              /\ orders[o].status = "pending"
              /\ Initialize(orders[o].customer, o, "razorpay", orders[o].totalAmount, 0))
             => res'.code = 200]_vars

\* C24: refund succeeds only on a completed payment, and then sets
\* payment.status to refunded, notes the given amount or else payment.amount,
\* and changes nothing else of the Order; otherwise it fails and leaves the
\* Order unchanged.
RefundOnlyWhenCompleted ==
    [][\A o \in DOMAIN orders : \A actor \in Users, amount \in {NoAmount, 50} :
          Refund(actor, o, amount, 0)
          => IF res'.code = 200
             THEN /\ orders[o].payment.status = "completed"
                  /\ orders' = [orders EXCEPT ![o] =
                        [@ EXCEPT !.payment.status = "refunded",
                                  !.notes = IF amount = NoAmount
                                            THEN orders[o].payment.amount ELSE amount]]
             ELSE /\ res'.code >= 400
                  /\ orders' = orders]_vars

\* C24 witness: a payment of 90 was refunded without an amount given, the
\* Order still confirmed
RefundOnlyWhenCompletedWitness ==
    \E o \in DOMAIN orders :
        /\ res = [code |-> 200, ref |-> o]
        /\ orders[o].payment.status = "refunded"
        /\ orders[o].payment.amount = 90
        /\ orders[o].notes = 90
        /\ orders[o].status = "confirmed"

\* C25: a verify whose signature check fails, or whose payment details cannot
\* be fetched, fails and leaves every Order unchanged; verify confirms an
\* Order only when both succeed.
FailedVerificationChangesNothing ==
    [][\A quotationId \in QuotationIds : \A req \in VerifyRequests :
          Verify("c1", quotationId, req.verification, req.details, req.amount, 2, 0)
          => /\ ~(req.verification /\ req.details)
                => (res'.code >= 400 /\ orders' = orders)
             /\ orders' # orders => (req.verification /\ req.details)]_vars

\* C25 witness: a request has just been refused while the Order of an
\* accepted Quotation is pending and unpaid
FailedVerificationChangesNothingWitness ==
    \E o \in DOMAIN orders :
        /\ res = [code |-> 400, ref |-> NoRef]
        /\ orders[o].status = "pending"
        /\ orders[o].payment.status = "pending"
        /\ orders[o].payment.transactionId = NoRef
        /\ quotations[orders[o].quotation].status = "accepted"

\* C27: an Inquiry is deleted only while its status is pending and while no
\* existing Quotation references it.
InquiryDeletedOnlyUnquoted ==
    [][\A i \in DOMAIN inquiries \ DOMAIN inquiries' :
          /\ inquiries[i].status = "pending"
          /\ \A q \in DOMAIN quotations : InquiryOf(quotations[q]) # i]_vars

\* C28: a Quotation becomes order_created only from accepted, only when an
\* Order for it exists, and with orderCreatedAt stamped; a further payment
\* confirmation for a Quotation that is order_created succeeds and leaves the
\* Quotation unchanged.
MarkOrderCreatedIsIdempotent ==
    [][\A q \in DOMAIN quotations \cap DOMAIN quotations' :
          /\ (quotations'[q].status = "order_created" /\ quotations[q].status # "order_created")
             => /\ quotations[q].status = "accepted"
                /\ OrdersOf(q) # {}
                /\ quotations'[q].orderCreatedAt = now
          /\ (/\ quotations[q].status = "order_created"
              /\ OrdersOf(q) # {}
              /\ UpdateOrder("c1", q, "bank_transfer", 1, quotations[q].totalAmount, 0))
             => /\ res'.code = 200
                /\ quotations'[q] = quotations[q]]_vars

\* an address with every missing sub-field replaced by the empty string
DefaultedAddress(a) ==
    [f \in DOMAIN a |-> IF a[f] = None THEN "" ELSE a[f]]

\* C30: the deliveryAddress of an Order created by an acceptance is the
\* delivery address of the Quotation's Inquiry with the missing sub-fields
\* set to the empty string, on every acceptance path.
OrderAddressIsInquiryAddress ==
    [][\A o \in DOMAIN orders' \ DOMAIN orders :
          orders'[o].deliveryAddress
              = DefaultedAddress(inquiries[orders'[o].inquiry].deliveryAddress)]_vars

\* C26: a lifecycle operation (quotation send and respond, payment
\* update-order and verify, dispatch) whose notifier calls throw still answers
\* 200 and makes the state change it makes when they succeed.
NotifierFailureIsSuppressed ==
    [][notified'.threw =>
         /\ \A id \in QuotationIds :
               /\ SendCall(id)
                  => res'.code = 200 /\ quotations'[id].status = "sent"
               /\ \A response \in Responses :
                     (\E actor \in Users : RespondQuotation4(actor, id, response, 0))
                     => /\ res'.code = 200
                        /\ quotations'[id].status = response
                        /\ inquiries'[quotations[id].inquiry].status =
                              (IF response = "accepted" THEN "quoted" ELSE "rejected")
                        /\ response = "accepted" => OrdersOf(id)' # {}
               /\ \A o \in OrdersOf(id) : \A amount \in PaidAmounts, transactionId \in {1, 2} :
                     ConfirmCall(id, o, amount, transactionId)
                     => /\ res' = [code |-> 200, ref |-> o]
                        /\ orders'[o].status = "confirmed"
                        /\ orders'[o].payment.status = "completed"
         /\ \A o \in DOMAIN orders :
               DispatchOrder("admin", o, "dhl", "trk1", NoDate, 0)
               => /\ res' = [code |-> 200, ref |-> o]
                  /\ orders'[o].status = "dispatched"]_vars

\* C26 witness: the email and the notification record of a send threw, and the
\* request answered 200 with the quotation stored as sent.
NotifierFailureIsSuppressedWitness ==
    /\ notified.threw
    /\ res.code = 200
    /\ \E id \in DOMAIN quotations :
          /\ Call("email", "sent", id, "draft") \in notified.calls
          /\ quotations[id].status = "sent"

\* C29: every notifier call announces a status the store already holds for
\* the entity: no "quotation ready" message goes out for a stored draft.
NotifiedAfterCommit ==
    \A n \in notified.calls : n.stored = n.event

\* the Inquiry status the spec's respond operation names for an accepted
\* Quotation, which is also what the part_003 response handler writes
AcceptedInquiryStatus == "accepted"

\* C31: a successful acceptance of a sent Quotation leaves the Inquiry with
\* the same status on every path (the response route, the accept route, the
\* part_003 response handler).
AcceptanceSetsOneInquiryStatus ==
    [][\A id \in DOMAIN quotations :
          (/\ quotations[id].status = "sent"
           /\ res'.code = 200
           /\ id \in DOMAIN quotations'
           /\ quotations'[id].status = "accepted"
           /\ InquiryOf(quotations[id]) \in DOMAIN inquiries')
          => inquiries'[InquiryOf(quotations[id])].status = AcceptedInquiryStatus]_vars

\* C33: an uploaded Quotation has no line items, also after updates.
UploadedQuotationHasNoLines ==
    \A id \in DOMAIN quotations :
        quotations[id].isUploadQuotation => LinesOf(quotations[id]) = <<>>

\* C34: an Order whose status is confirmed or beyond has a completed payment.
PaidStatusMeansCompletedPayment ==
    \A o \in DOMAIN orders :
        orders[o].status \in PaidStatuses => orders[o].payment.status = "completed"

OrderCustomerIsInquiryCustomer ==
    \A o \in DOMAIN orders :
        orders[o].inquiry \in DOMAIN inquiries
        => orders[o].customer = inquiries[orders[o].inquiry].customer

\* C37: every Order references a Quotation that exists and is accepted or
\* order_created.
OrderReferencesAcceptedQuotation ==
    \A o \in DOMAIN orders :
        /\ orders[o].quotation \in DOMAIN quotations
        /\ quotations[orders[o].quotation].status \in {"accepted", "order_created"}

\* C38: an Inquiry whose quotation reference is set, or whose status is
\* quoted, has an existing Quotation that references it.
QuotedInquiryHasQuotation ==
    \A i \in DOMAIN inquiries :
        (inquiries[i].quotation # NoRef \/ inquiries[i].status = "quoted")
        => \E id \in DOMAIN quotations : InquiryOf(quotations[id]) = i

\* C32: a status update to in_production that supplies an estimated delivery
\* date leaves production.estimatedCompletion equal to that date, also when
\* production.startDate was set by an earlier call.
EstimatedCompletionFollowsUpdate ==
    [][\A o \in DOMAIN orders : \A estimatedDelivery \in DeliveryDates :
          UpdateOrderStatus("admin", o, "in_production", estimatedDelivery, 0)
          => orders'[o].production.estimatedCompletion = estimatedDelivery]_vars

\* C39: when two create requests for one Inquiry without a Quotation run
\* interleaved at their store reads and writes, no interleaving ends with two
\* Quotations referencing that Inquiry.
NoDuplicateQuotationAfterConcurrentCreates ==
    inflight = <<>> =>
        \A i \in DOMAIN inquiries :
            Cardinality({id \in DOMAIN quotations : quotations[id].inquiry = i}) <= 1

====
